---- MODULE Spec2Model ----
(***************************************************************************)
(* Model of the crypto-chatbot analysis core (src/unnamed/part_003):       *)
(* candle aggregation, source resolution with fallback, and the            *)
(* multi-timeframe synthesis.                                              *)
(*                                                                         *)
(* Conventions.                                                            *)
(*  - A JavaScript array is a sequence; JS index k is TLA+ index k+1.      *)
(*    A raw sample [timestamp, value] is the pair <<timestamp, value>>.    *)
(*  - A JavaScript object is a record; an optional property that is not    *)
(*    set is a field missing from the record's DOMAIN.                     *)
(*  - Numbers are fixed-point integers and every product or quotient is   *)
(*    rounded down to the unit: prices are in units of 1/100 USD, and a    *)
(*    timestamp or duration is in whole seconds (the code's milliseconds   *)
(*    divided by 1000, so intervalMs = intervalMinutes * 60 here).         *)
(*  - Every specification below runs one call of one function: pc is the   *)
(*    position of that call, args its arguments (with the clock reading   *)
(*    of the call where it reads the clock), calls the HTTP requests it    *)
(*    has issued so far, locals its local variables and ret what it has    *)
(*    returned or thrown.                                                  *)
(***************************************************************************)
EXTENDS Integers, Sequences, FiniteSets, TLC

VARIABLES pc, args, calls, locals, ret

vars == <<pc, args, calls, locals, ret>>

(***************************************************************************)
(* Bounds of the model.                                                    *)
(***************************************************************************)
\* longest raw sample sequence handed to the aggregator
MaxSamples == 4

\* longest payload a price source answers with
MaxPayload == 3

(***************************************************************************)
(* Outcome of a call.                                                      *)
(***************************************************************************)
Pending == [kind |-> "pending"]

Returned(v) == [kind |-> "returned", value |-> v]

Threw(e) == [kind |-> "threw", error |-> e]

(***************************************************************************)
(* Small helpers standing for the JavaScript built-ins the code uses.      *)
(***************************************************************************)
RECURSIVE MathMax(_)
\* Math.max(...xs) over a non-empty array
MathMax(xs) ==
    IF Len(xs) = 1 THEN xs[1]
    ELSE LET m == MathMax(Tail(xs)) IN IF xs[1] >= m THEN xs[1] ELSE m

RECURSIVE MathMin(_)
\* Math.min(...xs) over a non-empty array
MathMin(xs) ==
    IF Len(xs) = 1 THEN xs[1]
    ELSE LET m == MathMin(Tail(xs)) IN IF xs[1] <= m THEN xs[1] ELSE m

Max2(a, b) == IF a >= b THEN a ELSE b

Min2(a, b) == IF a <= b THEN a ELSE b

\* xs.map(p => p[1]) : the value column of an array of [timestamp, value]
ValuesOf(xs) == [k \in 1..Len(xs) |-> xs[k][2]]

\* new Date(t).toISOString() for t >= 0: the text "<date>T<hh>:<mm>:<ss>Z",
\* kept as its fields <<day number, hh, mm, ss>>; the text orders as these
\* fields do, most significant first.
toISOString(t) ==
    << t \div (24 * 60 * 60),
       (t % (24 * 60 * 60)) \div (60 * 60),
       (t % (60 * 60)) \div 60,
       t % 60 >>

RECURSIVE IsoLessFrom(_, _, _)
IsoLessFrom(a, b, k) ==
    IF k > Len(a) THEN FALSE
    ELSE IF a[k] # b[k] THEN a[k] < b[k]
    ELSE IsoLessFrom(a, b, k + 1)

\* a < b for two ISO timestamps (string comparison, field by field)
IsoLess(a, b) == IsoLessFrom(a, b, 1)

(***************************************************************************)
(* Candle Aggregator.                                                      *)
(***************************************************************************)
\* volumeBucket.reduce((sum, v) => sum + v[1], 0)
RECURSIVE SumValues(_)
SumValues(xs) == IF xs = <<>> THEN 0 ELSE xs[1][2] + SumValues(Tail(xs))

\* faulty variant: the high of a bucket is taken to be its close
createAggregatedCandle_HighIsClose(priceBucket, volumeBucket, timestamp) ==
    [ timestamp |-> toISOString(timestamp),
      open      |-> priceBucket[1][2],
      high      |-> priceBucket[Len(priceBucket)][2],
      low       |-> MathMin(ValuesOf(priceBucket)),
      close     |-> priceBucket[Len(priceBucket)][2],
      volume    |-> SumValues(volumeBucket) ]

createAggregatedCandle(priceBucket, volumeBucket, timestamp) ==
    [ timestamp |-> toISOString(timestamp),
      open      |-> priceBucket[1][2],
      high      |-> MathMax(ValuesOf(priceBucket)),
      low       |-> MathMin(ValuesOf(priceBucket)),
      close     |-> priceBucket[Len(priceBucket)][2],
      volume    |-> SumValues(volumeBucket) ]

\* faulty variant: a missing volume is taken to be the sample's price
VolumeAt_Price(volumes, k, price) ==
    IF k <= Len(volumes) THEN volumes[k] ELSE price

\* volumes[i] || [price[0], 0]
VolumeAt(volumes, k, price) ==
    IF k <= Len(volumes) THEN volumes[k] ELSE <<price[1], 0>>

\* Math.floor(t / intervalMs) * intervalMs
BucketStart(t, intervalMs) == (t \div intervalMs) * intervalMs

\* one iteration of the for loop of aggregateToTimeframe (lines 251-267)
AggStep(st, price, volume, intervalMs) ==
    IF price[1] < st.bucketStartTime + intervalMs
    THEN [st EXCEPT !.currentBucket = Append(@, price),
                    !.currentVolumeBucket = Append(@, volume)]
    ELSE [ result |->
             IF Len(st.currentBucket) > 0
             THEN Append(st.result,
                         createAggregatedCandle(st.currentBucket,
                                                st.currentVolumeBucket,
                                                st.bucketStartTime))
             ELSE st.result,
           bucketStartTime |-> BucketStart(price[1], intervalMs),
           currentBucket |-> <<price>>,
           currentVolumeBucket |-> <<volume>> ]

RECURSIVE AggLoop(_, _, _, _, _)
AggLoop(st, prices, volumes, intervalMs, k) ==
    IF k > Len(prices) THEN st
    ELSE AggLoop(AggStep(st, prices[k], VolumeAt(volumes, k, prices[k]), intervalMs),
                 prices, volumes, intervalMs, k + 1)

aggregateToTimeframe(prices, volumes, intervalMinutes) ==
    LET intervalMs == intervalMinutes * 60 IN
    IF Len(prices) = 0 THEN <<>>
    ELSE LET st0 == [ result |-> <<>>,
                      currentBucket |-> <<>>,
                      currentVolumeBucket |-> <<>>,
                      bucketStartTime |-> BucketStart(prices[1][1], intervalMs) ]
             st == AggLoop(st0, prices, volumes, intervalMs, 1)
         IN IF Len(st.currentBucket) > 0
            THEN Append(st.result,
                        createAggregatedCandle(st.currentBucket,
                                               st.currentVolumeBucket,
                                               st.bucketStartTime))
            ELSE st.result

(***************************************************************************)
(* SpecAgg: one call of aggregateToTimeframe on a bounded input.           *)
(***************************************************************************)
\* sample timestamps: on, just before and well after the 15 and 30 minute
\* bucket boundaries
AggTimes == {0, 899, 900, 1800, 2700}

AggPrices == {10000, 20000, 30000}

AggVolumes == {5}

\* the bucket durations the code passes (line 147)
AggIntervals == {15, 30}

SeqsUpTo(S, n) == UNION {[1..k -> S] : k \in 0..n}

IsSortedByTime(xs) == \A k \in 1..(Len(xs) - 1) : xs[k][1] <= xs[k + 1][1]

\* raw price samples, ascending by timestamp (equal timestamps allowed)
SortedSamples ==
    {xs \in SeqsUpTo(AggTimes \X AggPrices, MaxSamples) : IsSortedByTime(xs)}

\* the volume array may be shorter than the price array
VolumesFor(prices) ==
    UNION { {[k \in 1..n |-> <<prices[k][1], vs[k]>>] : vs \in [1..n -> AggVolumes]} :
            n \in 0..Len(prices) }

InitAgg ==
    /\ pc = "aggregateToTimeframe"
    /\ \E prices \in SortedSamples :
         \E volumes \in VolumesFor(prices) :
           \E intervalMinutes \in AggIntervals :
             args = [ prices |-> prices, volumes |-> volumes,
                      intervalMinutes |-> intervalMinutes ]
    /\ calls = <<>>
    /\ locals = <<>>
    /\ ret = Pending

CallAggregateToTimeframe ==
    /\ pc = "aggregateToTimeframe"
    /\ pc' = "done"
    /\ ret' = Returned(aggregateToTimeframe(args.prices, args.volumes,
                                            args.intervalMinutes))
    /\ UNCHANGED <<args, calls, locals>>

NextAgg == CallAggregateToTimeframe

SpecAgg == InitAgg /\ [][NextAgg]_vars

AggReturned == pc = "done" /\ ret.kind = "returned"

\* C10: for every non-empty sample sequence sorted ascending by timestamp
\* and each bucket duration, the candles returned by aggregateToTimeframe
\* have strictly ascending timestamps (no two equal) and each candle has
\* high >= open, high >= close, low <= open and low <= close.
C10_AggregateOrderedAndBounded ==
    (AggReturned /\ Len(args.prices) > 0) =>
        LET r == ret.value IN
        /\ Len(r) > 0
        /\ \A k \in 1..(Len(r) - 1) : IsoLess(r[k].timestamp, r[k + 1].timestamp)
        /\ \A k \in 1..Len(r) :
             /\ r[k].high >= r[k].open
             /\ r[k].high >= r[k].close
             /\ r[k].low <= r[k].open
             /\ r[k].low <= r[k].close

\* C10 witness: a call returned at least two candles, one of them built
\* from a bucket whose high and low differ from both its open and close.
C10_Witness ==
    /\ AggReturned
    /\ Len(ret.value) >= 2
    /\ \E k \in 1..Len(ret.value) :
         /\ ret.value[k].high > ret.value[k].open
         /\ ret.value[k].high > ret.value[k].close

(***************************************************************************)
(* Multi-Timeframe Synthesizer: the reduction generateOverallAnalysis.     *)
(* A volatility is a fixed-point integer in units of 1/1000 (0.4 is 400);  *)
(* the mean totalVolatility / validTimeframes is kept as the exact         *)
(* fraction [num, den] and compared by cross-multiplication.               *)
(***************************************************************************)
\* the threshold 0.4 of line 664, in units of 1/1000
HighVolatility == 400

\* the threshold 0.15 of line 666, in units of 1/1000
LowVolatility == 150

\* the body of the loop over the reports (lines 639-645)
OverallStep(acc, tf) ==
    IF Len(tf.data) > 0
    THEN [ validTimeframes |-> acc.validTimeframes + 1,
           totalVolatility |-> acc.totalVolatility + tf.volatility,
           bullishCount |->
               IF tf.trend = "Uptrend" THEN acc.bullishCount + 1
               ELSE acc.bullishCount,
           bearishCount |->
               IF tf.trend # "Uptrend" /\ tf.trend = "Downtrend"
               THEN acc.bearishCount + 1
               ELSE acc.bearishCount ]
    ELSE acc

RECURSIVE OverallLoop(_, _, _)
\* for (const tf of timeframes) { ... } (lines 633-646)
OverallLoop(acc, timeframes, k) ==
    IF k > Len(timeframes) THEN acc
    ELSE OverallLoop(OverallStep(acc, timeframes[k]), timeframes, k + 1)

\* avgVolatility (line 648) as an exact fraction
AvgVolatility(acc) ==
    IF acc.validTimeframes > 0
    THEN [num |-> acc.totalVolatility, den |-> acc.validTimeframes]
    ELSE [num |-> 0, den |-> 1]

\* faulty variant: the margin of 2 is reached with >= instead of >
Sentiment_AtLeast(bullishCount, bearishCount) ==
    IF bullishCount >= bearishCount + 2 THEN "Bullish"
    ELSE IF bearishCount >= bullishCount + 2 THEN "Bearish"
    ELSE IF bullishCount > bearishCount THEN "Slightly Bullish"
    ELSE IF bearishCount > bullishCount THEN "Slightly Bearish"
    ELSE "Neutral"

\* lines 651-660
Sentiment(bullishCount, bearishCount) ==
    IF bullishCount > bearishCount + 2 THEN "Bullish"
    ELSE IF bearishCount > bullishCount + 2 THEN "Bearish"
    ELSE IF bullishCount > bearishCount THEN "Slightly Bullish"
    ELSE IF bearishCount > bullishCount THEN "Slightly Bearish"
    ELSE "Neutral"

\* faulty variant: the boundary values count as High and Low
Risk_Inclusive(avg) ==
    IF avg.num >= HighVolatility * avg.den THEN "High"
    ELSE IF avg.num <= LowVolatility * avg.den THEN "Low"
    ELSE "Medium"

\* lines 663-668
Risk(avg) ==
    IF avg.num > HighVolatility * avg.den THEN "High"
    ELSE IF avg.num < LowVolatility * avg.den THEN "Low"
    ELSE "Medium"

\* faulty variant: the sentiment is looked at before the risk
Recommendation_IgnoresRisk(sentiment, risk) ==
    IF sentiment = "Bullish" THEN "Buy"
    ELSE IF sentiment = "Bearish" THEN "Sell"
    ELSE IF risk = "High" THEN "Wait"
    ELSE "Hold"

\* lines 671-678
Recommendation(sentiment, risk) ==
    IF sentiment = "Bullish" /\ risk # "High" THEN "Buy"
    ELSE IF sentiment = "Bearish" /\ risk # "High" THEN "Sell"
    ELSE IF risk = "High" THEN "Wait"
    ELSE "Hold"

generateOverallAnalysis(timeframes) ==
    LET acc == OverallLoop([ validTimeframes |-> 0, totalVolatility |-> 0,
                             bullishCount |-> 0, bearishCount |-> 0 ],
                           timeframes, 1)
        sentiment == Sentiment(acc.bullishCount, acc.bearishCount)
        risk == Risk(AvgVolatility(acc))
    IN [ sentiment |-> sentiment,
         risk |-> risk,
         recommendation |-> Recommendation(sentiment, risk) ]

(***************************************************************************)
(* SpecOverall: one call of generateOverallAnalysis on a bounded list of   *)
(* reports.                                                                *)
(***************************************************************************)
\* the timeframe codes, in the order of line 487
TIMEFRAMES == <<"15m", "30m", "1h", "12h", "24h", "7d", "30d", "6M", "1Y">>

OneCandle ==
    << [ timestamp |-> toISOString(0), open |-> 10000, high |-> 10000,
         low |-> 10000, close |-> 10000 ] >>

\* the reports the list is drawn from: data (empty or not), trend, volatility
ReportKinds ==
    << [data |-> OneCandle, trend |-> "Uptrend", volatility |-> 150],
       [data |-> OneCandle, trend |-> "Downtrend", volatility |-> 700],
       [data |-> OneCandle, trend |-> "Sideways", volatility |-> 400],
       [data |-> OneCandle, trend |-> "Insufficient data", volatility |-> 0],
       [data |-> <<>>, trend |-> "Unknown", volatility |-> 0],
       [data |-> <<>>, trend |-> "Uptrend", volatility |-> 900] >>

RECURSIVE CountVectors(_, _)
\* the vectors of k counts whose sum is at most n
CountVectors(k, n) ==
    IF k = 0 THEN {<<>>}
    ELSE UNION {{Append(v, m) : v \in CountVectors(k - 1, n - m)} : m \in 0..n}

RECURSIVE KindsOf(_, _)
\* counts <<c1, c2, ...>> as the list of kinds: c1 times 1, then c2 times 2, ...
KindsOf(counts, j) ==
    IF j > Len(counts) THEN <<>>
    ELSE [i \in 1..counts[j] |-> j] \o KindsOf(counts, j + 1)

Rotate(xs, r) ==
    [k \in 1..Len(xs) |-> xs[((k - 1 + r) % Len(xs)) + 1]]

ReportOfKind(j, slot) ==
    [ timeframe |-> TIMEFRAMES[slot],
      duration |-> TIMEFRAMES[slot],
      data |-> ReportKinds[j].data,
      analysis |-> "text",
      trend |-> ReportKinds[j].trend,
      volatility |-> ReportKinds[j].volatility,
      priceChange |-> 0 ]

\* every list of at most nine reports, up to the order of the kinds in it,
\* and every rotation of each
ReportLists ==
    { LET kinds == KindsOf(counts, 1) IN
      [slot \in 1..Len(kinds) |-> ReportOfKind(Rotate(kinds, r)[slot], slot)] :
        counts \in CountVectors(Len(ReportKinds), Len(TIMEFRAMES)),
        r \in 0..(Len(TIMEFRAMES) - 1) }

InitOverall ==
    /\ pc = "generateOverallAnalysis"
    /\ \E timeframes \in ReportLists : args = [timeframes |-> timeframes]
    /\ calls = <<>>
    /\ locals = <<>>
    /\ ret = Pending

CallGenerateOverallAnalysis ==
    /\ pc = "generateOverallAnalysis"
    /\ pc' = "done"
    /\ ret' = Returned(generateOverallAnalysis(args.timeframes))
    /\ UNCHANGED <<args, calls, locals>>

NextOverall == CallGenerateOverallAnalysis

SpecOverall == InitOverall /\ [][NextOverall]_vars

OverallReturned == pc = "done" /\ ret.kind = "returned"

\* the reports of the list that have non-empty data
ValidSlots(timeframes) == {k \in 1..Len(timeframes) : timeframes[k].data # <<>>}

\* b: the number of reports with non-empty data and trend 'Uptrend'
NumBullish(timeframes) ==
    Cardinality({k \in ValidSlots(timeframes) : timeframes[k].trend = "Uptrend"})

\* r: the number of reports with non-empty data and trend 'Downtrend'
NumBearish(timeframes) ==
    Cardinality({k \in ValidSlots(timeframes) : timeframes[k].trend = "Downtrend"})

RECURSIVE SumVolatility(_, _)
SumVolatility(timeframes, slots) ==
    IF slots = {} THEN 0
    ELSE LET k == CHOOSE x \in slots : TRUE
         IN timeframes[k].volatility + SumVolatility(timeframes, slots \ {k})

\* C4: the sentiment is 'Bullish' if b > r + 2, else 'Bearish' if r > b + 2,
\* else 'Slightly Bullish' if b > r, else 'Slightly Bearish' if r > b, else
\* 'Neutral', b and r counting only reports with non-empty data; 7 'Uptrend'
\* and 0 'Downtrend' among 9 reports give 'Bullish'.
C4_SentimentRule ==
    OverallReturned =>
        LET b == NumBullish(args.timeframes)
            r == NumBearish(args.timeframes)
            s == ret.value.sentiment
        IN /\ (b > r + 2) => s = "Bullish"
           /\ (~(b > r + 2) /\ r > b + 2) => s = "Bearish"
           /\ (b <= r + 2 /\ r <= b + 2 /\ b > r) => s = "Slightly Bullish"
           /\ (b <= r + 2 /\ r <= b + 2 /\ r > b) => s = "Slightly Bearish"
           /\ (b = r) => s = "Neutral"
           /\ (Len(args.timeframes) = 9 /\ b = 7 /\ r = 0) => s = "Bullish"

\* C4 witness: nine reports, seven 'Uptrend' with data, no 'Downtrend', and
\* one report with empty data whose trend says 'Uptrend'; 'Bullish' returned.
C4_Witness ==
    /\ OverallReturned
    /\ Len(args.timeframes) = 9
    /\ NumBullish(args.timeframes) = 7
    /\ NumBearish(args.timeframes) = 0
    /\ \E k \in 1..9 : /\ args.timeframes[k].data = <<>>
                       /\ args.timeframes[k].trend = "Uptrend"
    /\ ret.value.sentiment = "Bullish"

\* C5: the risk is 'High' when the mean volatility of the reports with
\* non-empty data is above 0.4, 'Low' when it is below 0.15 and 'Medium'
\* otherwise (0.4 and 0.15 themselves give 'Medium'); the volatility of a
\* report with empty data does not enter the mean.
C5_RiskRule ==
    (OverallReturned /\ ValidSlots(args.timeframes) # {}) =>
        LET n == Cardinality(ValidSlots(args.timeframes))
            total == SumVolatility(args.timeframes, ValidSlots(args.timeframes))
            risk == ret.value.risk
        IN /\ (risk = "High") <=> (total * 10 > 4 * n * 1000)
           /\ (risk = "Low") <=> (total * 100 < 15 * n * 1000)
           /\ (risk = "Medium") <=>
                (total * 10 <= 4 * n * 1000 /\ total * 100 >= 15 * n * 1000)

\* C5 witness: the mean over the reports with data is exactly 0.4, a report
\* with empty data carries a volatility of 0.9, and 'Medium' is returned.
C5_Witness ==
    /\ OverallReturned
    /\ Cardinality(ValidSlots(args.timeframes)) >= 2
    /\ SumVolatility(args.timeframes, ValidSlots(args.timeframes))
         = 400 * Cardinality(ValidSlots(args.timeframes))
    /\ \E k \in 1..Len(args.timeframes) :
         /\ args.timeframes[k].data = <<>>
         /\ args.timeframes[k].volatility = 900
    /\ ret.value.risk = "Medium"

MulDiv(a, b, c) == (a \div c) * b + ((a % c) * b) \div c

\* lines 40-50
TIMEFRAME_CONFIG ==
    [ tf \in {TIMEFRAMES[k] : k \in 1..Len(TIMEFRAMES)} |->
        CASE tf = "15m" -> [days |-> 1, interval |-> "minutely", points |-> 96]
          [] tf = "30m" -> [days |-> 2, interval |-> "minutely", points |-> 96]
          [] tf = "1h"  -> [days |-> 7, interval |-> "hourly", points |-> 168]
          [] tf = "12h" -> [days |-> 30, interval |-> "daily", points |-> 60]
          [] tf = "24h" -> [days |-> 30, interval |-> "daily", points |-> 30]
          [] tf = "7d"  -> [days |-> 180, interval |-> "daily", points |-> 26]
          [] tf = "30d" -> [days |-> 365, interval |-> "daily", points |-> 12]
          [] tf = "6M"  -> [days |-> 1095, interval |-> "daily", points |-> 6]
          [] tf = "1Y"  -> [days |-> 1825, interval |-> "daily", points |-> 5] ]

\* The names every object literal inherits from Object.prototype: obj[name]
\* is then a function, which is truthy and has none of the own properties.
ObjectPrototypeNames ==
    {"constructor", "toString", "valueOf", "hasOwnProperty", "__proto__"}

\* A value read from an object by a computed key: an own property with its
\* value, a member inherited from Object.prototype, or undefined.
Own(v) == [kind |-> "own", value |-> v]

Inherited == [kind |-> "inherited"]

Undefined == [kind |-> "undefined"]

\* obj[key] for an object literal obj with the own properties of `own`
Lookup(own, key) ==
    IF key \in DOMAIN own THEN Own(own[key])
    ELSE IF key \in ObjectPrototypeNames THEN Inherited
    ELSE Undefined

\* JavaScript truthiness of a value read by Lookup (own values here are
\* non-empty strings, non-zero numbers and objects)
Truthy(v) == v.kind # "undefined"

\* v.name for a value v read by Lookup
Prop(v, name) ==
    IF v.kind = "own" /\ name \in DOMAIN v.value THEN Own(v.value[name])
    ELSE Undefined

\* TIMEFRAME_CONFIG[timeframe as keyof typeof TIMEFRAME_CONFIG] (line 120)
ConfigOf(timeframe) == Lookup(TIMEFRAME_CONFIG, timeframe)

\* lines 226-239
getCoincapInterval(timeframe) ==
    LET intervalMap ==
          [ tf \in DOMAIN TIMEFRAME_CONFIG |->
              CASE tf = "15m" -> "m15"
                [] tf = "30m" -> "m30"
                [] tf = "1h"  -> "h1"
                [] tf = "12h" -> "h12"
                [] OTHER -> "d1" ]
        v == Lookup(intervalMap, timeframe)
    IN IF Truthy(v) THEN v ELSE Own("h1")

\* lines 344-357, in seconds
getIntervalMs(timeframe) ==
    LET intervals ==
          [ tf \in DOMAIN TIMEFRAME_CONFIG |->
              CASE tf = "15m" -> 15 * 60
                [] tf = "30m" -> 30 * 60
                [] tf = "1h"  -> 60 * 60
                [] tf = "12h" -> 12 * 60 * 60
                [] tf = "24h" -> 24 * 60 * 60
                [] tf = "7d"  -> 7 * 24 * 60 * 60
                [] tf = "30d" -> 30 * 24 * 60 * 60
                [] tf = "6M"  -> 6 * 30 * 24 * 60 * 60
                [] tf = "1Y"  -> 365 * 24 * 60 * 60 ]
        v == Lookup(intervals, timeframe)
    IN IF Truthy(v) THEN v ELSE Own(intervals["1h"])

\* lines 276-297
aggregateToHalfDay(prices, volumes) ==
    [ j \in 1..((Len(prices) + 1) \div 2) |->
        LET i == 2 * j - 1
            firstHalf == prices[i]
            secondHalf == IF i + 1 <= Len(prices) THEN prices[i + 1] ELSE firstHalf
            firstVolume == IF i <= Len(volumes) THEN volumes[i]
                           ELSE <<firstHalf[1], 0>>
            secondVolume == IF i + 1 <= Len(volumes) THEN volumes[i + 1]
                            ELSE firstVolume
        IN [ timestamp |-> toISOString(firstHalf[1]),
             open      |-> firstHalf[2],
             close     |-> secondHalf[2],
             high      |-> Max2(firstHalf[2], secondHalf[2]),
             low       |-> Min2(firstHalf[2], secondHalf[2]),
             volume    |-> firstVolume[2] + secondVolume[2] ] ]

(***************************************************************************)
(* Math.random(): the value of the n-th draw (n = 0, 1, ...) of one call   *)
(* is rs[n mod Len(rs)] / RandDen for a stream rs of numerators chosen by  *)
(* the environment; every draw is in [0, 1).                               *)
(***************************************************************************)
\* resolution of the random numbers: the draws are k / RandDen
RandDen == 2

\* period of a random stream
RandPeriod == 3

RandStreams == [1..RandPeriod -> 0..(RandDen - 1)]

\* numerator of draw n of stream rs
Rand(rs, n) == rs[(n % Len(rs)) + 1]

\* the map of lines 154-168 applied to item index (0-based), before the filter
\* faulty variant: the high is the close and the low the open
DirectCandle_NoWicks(prices, volumes, index, rs) ==
    LET item == prices[index + 1]
        prevClose == IF index > 0 THEN prices[index][2] ELSE item[2]
    IN [ timestamp |-> toISOString(item[1]),
         close     |-> item[2],
         open      |-> prevClose,
         high      |-> item[2],
         low       |-> prevClose,
         volume    |-> IF index + 1 <= Len(volumes) THEN volumes[index + 1][2]
                       ELSE 0 ]

DirectCandle(prices, volumes, index, rs) ==
    LET item == prices[index + 1]
        close == item[2]
        volume == IF index + 1 <= Len(volumes) THEN volumes[index + 1][2] ELSE 0
        prevClose == IF index > 0 THEN prices[index][2] ELSE close
        up == MulDiv(prevClose, 2 * Rand(rs, 2 * index), 100 * RandDen)
        down == MulDiv(prevClose, 2 * Rand(rs, 2 * index + 1), 100 * RandDen)
    IN [ timestamp |-> toISOString(item[1]),
         close     |-> close,
         open      |-> prevClose,
         high      |-> Max2(close, prevClose + up),
         low       |-> Min2(close, prevClose - down),
         volume    |-> volume ]

\* lines 154-168: prices.map(...).filter((_, index) => index > 0)
DirectData(prices, volumes, rs) ==
    [ j \in 1..(IF Len(prices) > 0 THEN Len(prices) - 1 ELSE 0) |->
        DirectCandle(prices, volumes, j, rs) ]

\* lines 140-169: processedData of a CoinGecko response
ProcessCoinGecko(timeframe, data, rs) ==
    LET prices == IF "prices" \in DOMAIN data THEN data.prices ELSE <<>>
        volumes == IF "total_volumes" \in DOMAIN data THEN data.total_volumes
                   ELSE <<>>
    IN IF timeframe = "15m" \/ timeframe = "30m"
       THEN aggregateToTimeframe(prices, volumes,
                                 IF timeframe = "15m" THEN 15 ELSE 30)
       ELSE IF timeframe = "12h" THEN aggregateToHalfDay(prices, volumes)
       ELSE DirectData(prices, volumes, rs)

Digit(ch) ==
    CASE ch = "0" -> 0 [] ch = "1" -> 1 [] ch = "2" -> 2 [] ch = "3" -> 3
      [] ch = "4" -> 4 [] ch = "5" -> 5 [] ch = "6" -> 6 [] ch = "7" -> 7
      [] ch = "8" -> 8 [] ch = "9" -> 9

RECURSIVE ParseDigits(_, _, _)
\* the digits of text from position k up to the next '.', as a number
ParseDigits(text, k, acc) ==
    IF k > Len(text) \/ text[k] = "." THEN [value |-> acc, next |-> k]
    ELSE ParseDigits(text, k + 1, 10 * acc + Digit(text[k]))

\* parseFloat(text) for a decimal numeral given as its characters, in units
\* of 1/100 (digits after the second decimal are dropped)
parseFloat(text) ==
    LET whole == ParseDigits(text, 1, 0)
        d1 == IF whole.next + 1 <= Len(text) THEN Digit(text[whole.next + 1]) ELSE 0
        d2 == IF whole.next + 2 <= Len(text) THEN Digit(text[whole.next + 2]) ELSE 0
    IN 100 * whole.value + 10 * d1 + d2

\* lines 195-207: processedData of a CoinCap response
ProcessCoinCap(data) ==
    [ j \in 1..(IF Len(data) > 0 THEN Len(data) - 1 ELSE 0) |->
        LET close == parseFloat(data[j + 1].priceUsd)
            prevClose == parseFloat(data[j].priceUsd)
        IN [ timestamp |-> toISOString(data[j + 1].time),
             close     |-> close,
             open      |-> prevClose,
             high      |-> Max2(close, prevClose),
             low       |-> Min2(close, prevClose) ] ]

\* 1000 * Math.sin(i * 0.1), rounded, for i = 0 .. 100
SinTable ==
    << 0, 100, 199, 296, 389, 479, 565, 644, 717, 783, 841, 891, 932, 964,
       985, 997, 1000, 992, 974, 946, 909, 863, 808, 746, 675, 598, 516, 427,
       335, 239, 141, 42, -58, -158, -256, -351, -443, -530, -612, -688, -757,
       -818, -872, -916, -952, -978, -994, -1000, -996, -982, -959, -926, -883,
       -832, -773, -706, -631, -551, -465, -374, -279, -182, -83, 17, 117, 215,
       312, 405, 494, 578, 657, 729, 794, 850, 899, 938, 968, 988, 999, 999,
       989, 970, 941, 902, 855, 798, 734, 663, 585, 501, 412, 319, 223, 124,
       25, -75, -174, -272, -366, -458, -544 >>

\* basePrice (line 318), in units of 1/100 USD
BasePrice(coinId) ==
    IF coinId = "bitcoin" THEN 45000 * 100
    ELSE IF coinId = "ethereum" THEN 2500 * 100
    ELSE 100 * 100

\* the candle pushed by the loop body of lines 326-338 for loop index i;
\* draw is the number of Math.random() calls made before this iteration
MockCandle(basePrice, now, intervalMs, i, rs, draw) ==
    LET \* (Math.random() - 0.5) * 0.1, in units of 1/1000
        randomChange == (1000 * Rand(rs, draw)) \div (10 * RandDen) - 50
        \* 1 + Math.sin(i * 0.1) * 0.15 + randomChange, in units of 1/1000
        factor == 1000 + (SinTable[i + 1] * 15) \div 100 + randomChange
        price == MulDiv(basePrice, factor, 1000)
    IN [ timestamp |-> toISOString(now - i * intervalMs),
         open      |-> MulDiv(price, 999, 1000),
         high      |-> MulDiv(price, 1003, 1000),
         low       |-> MulDiv(price, 997, 1000),
         close     |-> price,
         volume    |-> (1000000 * Rand(rs, draw + 1)) \div RandDen ]

\* faulty variant: the loop never runs and no candle is generated
generateMockDataByTimeframe_Empty(coinId, timeframe, now, rs) == <<>>

\* lines 316-342; now is the clock reading of line 319
generateMockDataByTimeframe(coinId, timeframe, now, rs) ==
    LET config == ConfigOf(timeframe)
        points == Prop(config, "points")
        intervalMs == getIntervalMs(timeframe)
    IN IF points.kind # "own"
       THEN <<>>   \* Math.min(undefined, 100) is NaN: the loop does not run
       ELSE LET dataPoints == Min2(points.value, 100) IN
            [ j \in 1..(dataPoints + 1) |->
                MockCandle(BasePrice(coinId), now, intervalMs.value,
                           dataPoints - (j - 1), rs, 2 * (j - 1)) ]

(***************************************************************************)
(* SpecMarket: one call of getMarketDataByTimeframe.  The call suspends at *)
(* each HTTP request; the environment answers with a failure (an error     *)
(* status, a timeout, a payload the processing chokes on) or a payload.    *)
(***************************************************************************)
\* readings of the clock (Date.now(), new Date()), in seconds
Clock == {1700000000}

MdCoinIds == {"bitcoin", "ethereum", "cardano"}

\* the nine configured codes, two codes that are no key at all, and a name
\* that every object inherits
MdTimeframes == DOMAIN TIMEFRAME_CONFIG \cup {"5m", "6m", "constructor"}

MdTimes == {0, 900}

MdPrices == {10000, 20000}

MdVolumes == {7}

MdSamples ==
    {xs \in SeqsUpTo(MdTimes \X MdPrices, MaxPayload) : IsSortedByTime(xs)}

Failure == [ok |-> FALSE]

\* answers of CoinGecko's market_chart: a failure, a body without prices,
\* or prices with volumes (all or none of them)
CoinGeckoResponses ==
    {Failure, [ok |-> TRUE, data |-> [status |-> "empty"]]}
    \cup UNION { { [ok |-> TRUE, data |-> [prices |-> xs, total_volumes |-> vs]] :
                    vs \in {<<>>} \cup {[k \in 1..Len(xs) |-> <<xs[k][1], v>>] :
                                          v \in MdVolumes} } :
                  xs \in MdSamples }

CapItems ==
    { [priceUsd |-> <<"9", "9">>, time |-> 0],
      [priceUsd |-> <<"1", "0", "0", ".", "5">>, time |-> 900] }

\* answers of CoinCap's history
CoinCapResponses ==
    {Failure} \cup {[ok |-> TRUE, data |-> xs] : xs \in SeqsUpTo(CapItems, MaxPayload)}

\* the request of lines 128-138
CoinGeckoRequest(coinId, config) ==
    [ api |-> "coingecko", coinId |-> coinId,
      days |-> Prop(config, "days"), interval |-> Prop(config, "interval") ]

\* the request of lines 180-193; a start computed from missing days is NaN
CoinCapRequest(coinId, timeframe, config, now) ==
    LET days == Prop(config, "days") IN
    [ api |-> "coincap", coinId |-> coinId,
      interval |-> getCoincapInterval(timeframe),
      start |-> IF days.kind = "own"
                THEN Own(now - days.value * 24 * 60 * 60) ELSE Undefined,
      end |-> now ]

InitMarket ==
    /\ pc = "getMarketDataByTimeframe"
    /\ \E coinId \in MdCoinIds, timeframe \in MdTimeframes :
         args = [coinId |-> coinId, timeframe |-> timeframe]
    /\ calls = <<>>
    /\ locals = [ coingecko |-> "not called", coincap |-> "not called",
                  mock |-> FALSE, samples |-> <<>> ]
    /\ ret = Pending

\* lines 119-138: the configuration is looked up; without one the call
\* throws, with one the request to CoinGecko goes out
MdCall ==
    /\ pc = "getMarketDataByTimeframe"
    /\ LET config == ConfigOf(args.timeframe) IN
       IF ~Truthy(config)
       THEN /\ pc' = "done"
            /\ ret' = Threw([unsupported |-> args.timeframe])
            /\ UNCHANGED <<calls, locals>>
       ELSE /\ pc' = "awaitCoinGecko"
            /\ calls' = Append(calls, CoinGeckoRequest(args.coinId, config))
            /\ UNCHANGED <<locals, ret>>
    /\ UNCHANGED args

\* lines 138-193: CoinGecko answers; a non-empty processedData is returned,
\* anything else (caught error, empty series) sends the request to CoinCap;
\* locals.samples keeps the prices of the payload the series was built from
MdCoinGeckoResponds ==
    /\ pc = "awaitCoinGecko"
    /\ \E resp \in CoinGeckoResponses, rs \in RandStreams, now \in Clock :
         LET processedData ==
               IF resp.ok THEN ProcessCoinGecko(args.timeframe, resp.data, rs)
               ELSE <<>>
         IN IF resp.ok /\ Len(processedData) > 0
            THEN /\ pc' = "done"
                 /\ ret' = Returned(processedData)
                 /\ locals' = [locals EXCEPT
                                 !.coingecko = "data",
                                 !.samples = ValuesOf(resp.data.prices)]
                 /\ UNCHANGED calls
            ELSE /\ pc' = "awaitCoinCap"
                 /\ locals' = [locals EXCEPT
                                 !.coingecko = IF resp.ok THEN "empty" ELSE "threw"]
                 /\ calls' = Append(calls,
                                    CoinCapRequest(args.coinId, args.timeframe,
                                                   ConfigOf(args.timeframe), now))
                 /\ UNCHANGED ret
    /\ UNCHANGED args

\* faulty variant: the series of CoinCap is returned without the length check
MdCoinCapResponds_NoLengthCheck ==
    /\ pc = "awaitCoinCap"
    /\ \E resp \in CoinCapResponses, rs \in RandStreams, now \in Clock :
         IF resp.ok
         THEN /\ ret' = Returned(ProcessCoinCap(resp.data))
              /\ locals' = [locals EXCEPT
                              !.coincap = IF Len(resp.data) > 1 THEN "data"
                                          ELSE "empty"]
         ELSE /\ ret' = Returned(generateMockDataByTimeframe(
                                     args.coinId, args.timeframe, now, rs))
              /\ locals' = [locals EXCEPT !.coincap = "threw", !.mock = TRUE]
    /\ pc' = "done"
    /\ UNCHANGED <<args, calls>>

\* lines 193-218: CoinCap answers; a non-empty processedData is returned,
\* anything else ends in the synthetic generator
MdCoinCapResponds ==
    /\ pc = "awaitCoinCap"
    /\ \E resp \in CoinCapResponses, rs \in RandStreams, now \in Clock :
         LET processedData == IF resp.ok THEN ProcessCoinCap(resp.data) ELSE <<>>
         IN IF resp.ok /\ Len(processedData) > 0
            THEN /\ ret' = Returned(processedData)
                 /\ locals' = [locals EXCEPT
                                 !.coincap = "data",
                                 !.samples = [k \in 1..Len(resp.data) |->
                                                parseFloat(resp.data[k].priceUsd)]]
            ELSE /\ ret' = Returned(generateMockDataByTimeframe(
                                        args.coinId, args.timeframe, now, rs))
                 /\ locals' = [locals EXCEPT
                                 !.coincap = IF resp.ok THEN "empty" ELSE "threw",
                                 !.mock = TRUE]
    /\ pc' = "done"
    /\ UNCHANGED <<args, calls>>

NextMarket == MdCall \/ MdCoinGeckoResponds \/ MdCoinCapResponds

SpecMarket == InitMarket /\ [][NextMarket]_vars

ApisCalled == [k \in 1..Len(calls) |-> calls[k].api]

Supported(timeframe) == timeframe \in {TIMEFRAMES[k] : k \in 1..Len(TIMEFRAMES)}

\* C7: for a supported timeframe, when every real source raised an error or
\* yielded an empty series, the call returns the synthetic series, which is
\* non-empty, and raises no error.
C7_FallsBackToSynthetic ==
    (/\ pc = "done"
     /\ Supported(args.timeframe)
     /\ locals.coingecko \in {"threw", "empty"}
     /\ locals.coincap \in {"threw", "empty"})
    => /\ ret.kind = "returned"
       /\ locals.mock
       /\ Len(ret.value) > 0

\* C7 witness: CoinGecko threw, CoinCap answered an empty list, and the
\* call returned a non-empty synthetic series.
C7_Witness ==
    /\ pc = "done"
    /\ Supported(args.timeframe)
    /\ locals.coingecko = "threw"
    /\ locals.coincap = "empty"
    /\ locals.mock
    /\ ret.kind = "returned"
    /\ Len(ret.value) > 0

\* C8: the sources are tried in the order CoinGecko, CoinCap, synthetic
\* generator, each real source at most once; the first source that yields
\* a non-empty series is the one returned, and no later source is called.
C8_SourcesInRankOrder ==
    /\ ApisCalled \in {<<>>, <<"coingecko">>, <<"coingecko", "coincap">>}
    /\ locals.coincap # "not called" => locals.coingecko \in {"threw", "empty"}
    /\ locals.mock => locals.coincap \in {"threw", "empty"}
    /\ locals.coingecko = "data" =>
         /\ ApisCalled = <<"coingecko">>
         /\ pc = "done" /\ ret.kind = "returned" /\ Len(ret.value) > 0
         /\ locals.coincap = "not called" /\ ~locals.mock
    /\ locals.coincap = "data" =>
         /\ ApisCalled = <<"coingecko", "coincap">>
         /\ pc = "done" /\ ret.kind = "returned" /\ Len(ret.value) > 0
         /\ ~locals.mock
    /\ (pc = "done" /\ ret.kind = "returned") =>
         \/ locals.coingecko = "data"
         \/ locals.coincap = "data"
         \/ locals.mock
    /\ (locals.coingecko # "not called") => Len(calls) >= 1
    /\ (locals.coincap \notin {"not called"}) => Len(calls) = 2

\* C8 witness: CoinGecko yielded an empty series, CoinCap a non-empty one,
\* which was returned without the synthetic generator.
C8_Witness ==
    /\ pc = "done"
    /\ locals.coingecko = "empty"
    /\ locals.coincap = "data"
    /\ ~locals.mock
    /\ ret.kind = "returned"
    /\ Len(ret.value) > 0

\* C9: a call with a timeframe code that is not one of the nine configured
\* codes raises an error before any source is contacted and returns no data.
C9_UnsupportedFailsFast ==
    ~Supported(args.timeframe) =>
        /\ calls = <<>>
        /\ pc = "done" => ret.kind = "threw"

(***************************************************************************)
(* Indicator Engine and Trend & Volatility Classifier.                     *)
(* A JavaScript array with holes (ema[19] set on an empty array) is a      *)
(* function from the JavaScript indices that are set to their values.      *)
(* An RSI is in units of 1/1000, a log return in units of 1/10000, a       *)
(* volatility in units of 1/1000 and a price change in units of 1/100 of   *)
(* a percent.  Wide operands are scaled down before they are multiplied.   *)
(***************************************************************************)
Abs(x) == IF x < 0 THEN 0 - x ELSE x

\* floor(scale * a / b) for b > 0 and scale <= 100000, a and b being scaled
\* down together so that the product stays narrow
Ratio(a, b, scale) ==
    LET m == Max2(Abs(a), b)
        k == m \div 20000 + 1
    IN ((a \div k) * scale) \div Max2(b \div k, 1)

RECURSIVE IsqrtFrom(_, _)
IsqrtFrom(n, x) ==
    LET y == (x + n \div x) \div 2 IN IF y >= x THEN x ELSE IsqrtFrom(n, y)

\* floor(Math.sqrt(n)) for n >= 0
Isqrt(n) == IF n < 2 THEN n ELSE IsqrtFrom(n, n)

RECURSIVE SumSeq(_)
SumSeq(xs) == IF xs = <<>> THEN 0 ELSE xs[1] + SumSeq(Tail(xs))

\* arr[index] || fallback : a hole, and a value of 0, give the fallback
OrElse(arr, index, fallback) ==
    IF index \in DOMAIN arr /\ arr[index] # 0 THEN arr[index] ELSE fallback

RECURSIVE EmaFill_WrongMultiplier(_, _, _)
\* faulty variant: the multiplier is 2 / period
EmaFill_WrongMultiplier(tail, data, period) ==
    LET i == period - 1 + Len(tail)
    IN IF i >= Len(data) THEN tail
       ELSE LET prev == tail[Len(tail)]
                next == ((data[i + 1] - prev) * 2) \div period + prev
            IN EmaFill_WrongMultiplier(Append(tail, next), data, period)

RECURSIVE EmaFill(_, _, _)
\* the loop of lines 370-372; tail is the list of the values written so far,
\* ema[period - 1] first, so the next JavaScript index is
\* period - 1 + Len(tail)
EmaFill(tail, data, period) ==
    LET i == period - 1 + Len(tail)
    IN IF i >= Len(data) THEN tail
       ELSE LET prev == tail[Len(tail)]
                next == ((data[i + 1] - prev) * 2) \div (period + 1) + prev
            IN EmaFill(Append(tail, next), data, period)

\* lines 360-375: the array has a hole at every index below period - 1
calculateEMA(data, period) ==
    LET sum == SumSeq(SubSeq(data, 1, Min2(period, Len(data))))
        tail == EmaFill(<<sum \div period>>, data, period)
    IN [i \in (period - 1)..(period - 2 + Len(tail)) |-> tail[i - period + 2]]

\* gains[j] and losses[j] of lines 382-386, j a JavaScript index
Gain(data, j) == Max2(data[j + 2] - data[j + 1], 0)

Loss(data, j) == Max2(data[j + 1] - data[j + 2], 0)

\* lines 377-401
calculateRSI(data, period) ==
    [ i \in (period - 1)..(Len(data) - 2) |->
        LET sumGain == SumSeq([j \in 1..period |-> Gain(data, i - period + j)])
            sumLoss == SumSeq([j \in 1..period |-> Loss(data, i - period + j)])
        IN IF sumLoss = 0 THEN 100 * 1000
           \* 100 - 100 / (1 + rs) with rs = avgGain / avgLoss
           ELSE 100 * 1000 - Ratio(sumLoss, sumGain + sumLoss, 100 * 1000) ]

\* faulty variant: the mean is taken over period - 1 closes
calculateBollingerBands_ShortMean(data, period, stdDev) ==
    LET band(i) ==
          LET slice == SubSeq(data, i - period + 2, i + 1)
              mean == SumSeq(slice) \div (period - 1)
          IN [sma |-> mean, upper |-> mean, lower |-> mean]
    IN [ sma |-> [i \in (period - 1)..(Len(data) - 1) |-> band(i).sma],
         upperBand |-> [i \in (period - 1)..(Len(data) - 1) |-> band(i).upper],
         lowerBand |-> [i \in (period - 1)..(Len(data) - 1) |-> band(i).lower] ]

\* lines 403-420
calculateBollingerBands(data, period, stdDev) ==
    LET band(i) ==
          LET slice == SubSeq(data, i - period + 2, i + 1)
              mean == SumSeq(slice) \div period
              dev == [j \in 1..period |-> Abs(slice[j] - mean)]
              k == MathMax(dev) \div 9000 + 1
              variance ==
                  SumSeq([j \in 1..period |-> (dev[j] \div k) * (dev[j] \div k)])
                      \div period
              standardDeviation == Isqrt(variance) * k
          IN [ sma |-> mean,
               upper |-> mean + standardDeviation * stdDev,
               lower |-> mean - standardDeviation * stdDev ]
    IN [ sma |-> [i \in (period - 1)..(Len(data) - 1) |-> band(i).sma],
         upperBand |-> [i \in (period - 1)..(Len(data) - 1) |-> band(i).upper],
         lowerBand |-> [i \in (period - 1)..(Len(data) - 1) |-> band(i).lower] ]

\* faulty variant: the open of every candle is replaced by its close
applyIndicators_OverwritesOpen(data) ==
    [ k \in 1..Len(data) |->
        [ open |-> data[k].close, ema_20 |-> 0, rsi_14 |-> 50 * 1000,
          bb_upper |-> 0, bb_lower |-> 0, macd |-> 0, macd_signal |-> 0,
          obv |-> 0 ] @@ data[k] ]

\* faulty variant: an EMA already attached to a candle is read as its close
applyIndicators_ClosesFromEma(data) ==
    LET closes == [k \in 1..Len(data) |->
                     IF "ema_20" \in DOMAIN data[k] /\ data[k].ema_20 # 0
                     THEN data[k].ema_20 ELSE data[k].close]
        ema20 == calculateEMA(closes, 20)
    IN [ k \in 1..Len(data) |->
           [ ema_20 |-> OrElse(ema20, k - 1, 0), rsi_14 |-> 50 * 1000,
             bb_upper |-> 0, bb_lower |-> 0, macd |-> 0, macd_signal |-> 0,
             obv |-> 0 ] @@ data[k] ]

\* faulty variant: a candle without EMA value gets its close as ema_20
applyIndicators_EmaOrClose(data) ==
    LET closes == [k \in 1..Len(data) |-> data[k].close]
        ema20 == calculateEMA(closes, 20)
        rsi14 == calculateRSI(closes, 14)
        bb == calculateBollingerBands(closes, 20, 2)
    IN [ k \in 1..Len(data) |->
           LET index == k - 1 IN
           [ ema_20 |-> OrElse(ema20, index, data[k].close),
             rsi_14 |-> OrElse(rsi14, index - 1, 50 * 1000),
             bb_upper |-> OrElse(bb.upperBand, index, 0),
             bb_lower |-> OrElse(bb.lowerBand, index, 0),
             macd |-> 0,
             macd_signal |-> 0,
             obv |-> 0 ] @@ data[k] ]

\* lines 422-439
applyIndicators(data) ==
    LET closes == [k \in 1..Len(data) |-> data[k].close]
        ema20 == calculateEMA(closes, 20)
        rsi14 == calculateRSI(closes, 14)
        bb == calculateBollingerBands(closes, 20, 2)
    IN [ k \in 1..Len(data) |->
           LET index == k - 1 IN
           [ ema_20 |-> OrElse(ema20, index, 0),
             rsi_14 |-> OrElse(rsi14, index - 1, 50 * 1000),
             bb_upper |-> OrElse(bb.upperBand, index, 0),
             bb_lower |-> OrElse(bb.lowerBand, index, 0),
             macd |-> 0,
             macd_signal |-> 0,
             obv |-> 0 ] @@ data[k] ]

\* item.name ?? fallback
Field(item, name, fallback) ==
    IF name \in DOMAIN item THEN item[name] ELSE fallback

\* faulty variant: the thresholds 55 and 45 are inclusive
detectTrend_Inclusive(data) ==
    IF Len(data) < 5 THEN "Insufficient data"
    ELSE LET latest == data[Len(data)]
             prev == data[Len(data) - 4]
             latestEma == Field(latest, "ema_20", 0)
             prevEma == Field(prev, "ema_20", 0)
             latestRsi == Field(latest, "rsi_14", 50 * 1000)
         IN IF latestEma > prevEma /\ latestRsi >= 55 * 1000 THEN "Uptrend"
            ELSE IF latestEma < prevEma /\ latestRsi <= 45 * 1000 THEN "Downtrend"
            ELSE "Sideways"

\* faulty variant: the reference is the candle before the last five, where
\* there is one
detectTrend_FiveBack(data) ==
    IF Len(data) < 5 THEN "Insufficient data"
    ELSE LET latest == data[Len(data)]
             prev == data[IF Len(data) > 5 THEN Len(data) - 5 ELSE 1]
             latestEma == Field(latest, "ema_20", 0)
             prevEma == Field(prev, "ema_20", 0)
             latestRsi == Field(latest, "rsi_14", 50 * 1000)
         IN IF latestEma > prevEma /\ latestRsi > 55 * 1000 THEN "Uptrend"
            ELSE IF latestEma < prevEma /\ latestRsi < 45 * 1000 THEN "Downtrend"
            ELSE "Sideways"

\* lines 441-458
detectTrend(data) ==
    IF Len(data) < 5 THEN "Insufficient data"
    ELSE LET latest == data[Len(data)]
             prev == data[Len(data) - 4]
             latestEma == Field(latest, "ema_20", 0)
             prevEma == Field(prev, "ema_20", 0)
             latestRsi == Field(latest, "rsi_14", 50 * 1000)
         IN IF latestEma > prevEma /\ latestRsi > 55 * 1000 THEN "Uptrend"
            ELSE IF latestEma < prevEma /\ latestRsi < 45 * 1000 THEN "Downtrend"
            ELSE "Sideways"

\* Math.log(a / b) in units of 1/10000, by the series
\* 2 (z + z^3/3 + z^5/5) with z = (a - b) / (a + b)
LogRatio(a, b) ==
    LET z == Ratio(a - b, a + b, 10000)
        z2 == (z * z) \div 10000
        z3 == (z2 * z) \div 10000
        z5 == (z3 * z2) \div 10000
    IN 2 * (z + z3 \div 3 + z5 \div 5)

\* lines 461-472
calculateVolatility(data) ==
    IF Len(data) < 2 THEN 0
    ELSE LET n == Len(data) - 1
             returns == [k \in 1..n |-> LogRatio(data[k + 1].close, data[k].close)]
             mean == SumSeq(returns) \div n
             \* squares in units of 1/1000000
             variance ==
                 SumSeq([k \in 1..n |->
                           ((returns[k] - mean) * (returns[k] - mean)) \div 100])
                     \div n
         \* Math.sqrt(variance) * Math.sqrt(252), sqrt(252) being 15.875
         IN (Isqrt(variance) * 15875) \div 1000

\* faulty variant: the guard is that of detectTrend
calculatePriceChange_GuardAtFive(data) ==
    IF Len(data) < 5 THEN 0
    ELSE Ratio(data[Len(data)].close - data[1].close, data[1].close, 100 * 100)

\* lines 475-482
calculatePriceChange(data) ==
    IF Len(data) < 2 THEN 0
    ELSE LET firstPrice == data[1].close
             lastPrice == data[Len(data)].close
         IN Ratio(lastPrice - firstPrice, firstPrice, 100 * 100)

\* lines 561-626: the text, kept as the list of its variable parts
generateTimeframeAnalysis(data, timeframe, trend, volatility, priceChange) ==
    IF Len(data) = 0 THEN <<"Data tidak tersedia", timeframe>>
    ELSE LET latest == data[Len(data)]
             rsi == Field(latest, "rsi_14", 50 * 1000)
             emaPosition ==
                 IF latest.close > Field(latest, "ema_20", latest.close)
                 THEN "di atas" ELSE "di bawah"
         IN << "Analisis", timeframe, trend, priceChange,
               IF rsi > 70 * 1000 THEN "overbought"
               ELSE IF rsi < 30 * 1000 THEN "oversold" ELSE "seimbang",
               rsi,
               emaPosition,
               IF volatility > 500 THEN "tinggi"
               ELSE IF volatility > 200 THEN "sedang" ELSE "rendah",
               volatility,
               IF timeframe \in {"15m", "30m"} THEN "scalping"
               ELSE IF timeframe = "1h" THEN "day trading"
               ELSE IF timeframe \in {"12h", "24h"} THEN "swing trading"
               ELSE IF timeframe \in {"7d", "30d"} THEN "jangka menengah"
               ELSE IF timeframe \in {"6M", "1Y"} THEN "jangka panjang"
               ELSE "" >>

(***************************************************************************)
(* getCoinId and getMultiTimeframeAnalysis.                                *)
(***************************************************************************)
\* String.prototype.toLowerCase on the strings used below
toLowerCase(str) ==
    CASE str \in {"BTC", "btc"} -> "btc"
      [] str \in {"Wif", "WIF", "wif"} -> "wif"
      [] str \in {"Nope", "NOPE", "nope"} -> "nope"
      [] str \in {"Check", "CHECK", "check"} -> "check"
      [] str \in {"All", "ALL", "all"} -> "all"
      [] str \in {"1H", "1h"} -> "1h"
      [] str \in {"6M", "6m"} -> "6m"
      [] str \in {"1Y", "1y"} -> "1y"
      [] OTHER -> str

\* String.prototype.toUpperCase on the strings used below
toUpperCase(str) ==
    CASE str \in {"BTC", "btc"} -> "BTC"
      [] str \in {"Wif", "WIF", "wif"} -> "WIF"
      [] str \in {"Nope", "NOPE", "nope"} -> "NOPE"
      [] str \in {"Check", "CHECK", "check"} -> "CHECK"
      [] str \in {"All", "ALL", "all"} -> "ALL"
      [] OTHER -> str

\* lines 54-75
coinMap ==
    [ btc |-> "bitcoin", eth |-> "ethereum", bnb |-> "binancecoin",
      ada |-> "cardano", dot |-> "polkadot", xrp |-> "ripple",
      ltc |-> "litecoin", link |-> "chainlink", bch |-> "bitcoin-cash",
      xlm |-> "stellar", usdt |-> "tether", usdc |-> "usd-coin",
      sol |-> "solana", avax |-> "avalanche-2", matic |-> "matic-network",
      doge |-> "dogecoin", shib |-> "shiba-inu", trx |-> "tron",
      atom |-> "cosmos", uni |-> "uniswap" ]

RECURSIVE FindFrom(_, _, _)
FindFrom(list, symbol, k) ==
    IF k > Len(list) THEN Undefined
    ELSE IF toLowerCase(list[k].symbol) = toLowerCase(symbol) THEN Own(list[k])
    ELSE FindFrom(list, symbol, k + 1)

\* list.find(coin => coin.symbol.toLowerCase() === symbol.toLowerCase())
Find(list, symbol) == FindFrom(list, symbol, 1)

\* lines 488-498
timeframeLabels ==
    [ tf \in DOMAIN TIMEFRAME_CONFIG |->
        CASE tf = "15m" -> "15 Menit" [] tf = "30m" -> "30 Menit"
          [] tf = "1h" -> "1 Jam"     [] tf = "12h" -> "12 Jam"
          [] tf = "24h" -> "24 Jam"   [] tf = "7d" -> "7 Hari"
          [] tf = "30d" -> "30 Hari"  [] tf = "6M" -> "6 Bulan"
          [] tf = "1Y" -> "1 Tahun" ]

\* lines 119-223 run to completion: answer holds what CoinGecko and CoinCap
\* reply to the requests of this call, should they be asked
getMarketDataByTimeframe(coinId, timeframe, answer, now, rs) ==
    LET config == ConfigOf(timeframe)
        fromCoinGecko ==
            IF answer.coingecko.ok
            THEN ProcessCoinGecko(timeframe, answer.coingecko.data, rs)
            ELSE <<>>
        fromCoinCap ==
            IF answer.coincap.ok THEN ProcessCoinCap(answer.coincap.data)
            ELSE <<>>
    IN IF ~Truthy(config) THEN Threw([unsupported |-> timeframe])
       ELSE IF Len(fromCoinGecko) > 0 THEN Returned(fromCoinGecko)
       ELSE IF Len(fromCoinCap) > 0 THEN Returned(fromCoinCap)
       ELSE Returned(generateMockDataByTimeframe(coinId, timeframe, now, rs))

\* faulty variant: the report of a failed timeframe keeps a trend
DegenerateReport_Sideways(timeframe) ==
    [ timeframe   |-> timeframe,
      duration    |-> timeframeLabels[timeframe],
      data        |-> <<>>,
      analysis    |-> <<"Analisis tidak tersedia", timeframe>>,
      trend       |-> "Sideways",
      volatility  |-> 0,
      priceChange |-> 0 ]

\* lines 540-548: the report pushed by the catch block
DegenerateReport(timeframe) ==
    [ timeframe   |-> timeframe,
      duration    |-> timeframeLabels[timeframe],
      data        |-> <<>>,
      analysis    |-> <<"Analisis tidak tersedia", timeframe>>,
      trend       |-> "Unknown",
      volatility  |-> 0,
      priceChange |-> 0 ]

\* lines 513-534: the report pushed for the series data
TimeframeReport(timeframe, data) ==
    LET dataWithIndicators == applyIndicators(data)
        trend == detectTrend(dataWithIndicators)
        volatility == calculateVolatility(data)
        priceChange == calculatePriceChange(data)
    IN [ timeframe   |-> timeframe,
         duration    |-> timeframeLabels[timeframe],
         data        |-> dataWithIndicators,
         analysis    |-> generateTimeframeAnalysis(dataWithIndicators, timeframe,
                                                   trend, volatility, priceChange),
         trend       |-> trend,
         volatility  |-> volatility,
         priceChange |-> priceChange ]

\* lines 500-507
NewAnalysis(symbol, now) ==
    [ symbol                |-> toUpperCase(symbol),
      timestamp             |-> toISOString(now),
      timeframes            |-> <<>>,
      overallSentiment      |-> "Neutral",
      riskLevel             |-> "Medium",
      tradingRecommendation |-> "Hold" ]

(***************************************************************************)
(* SpecMTA: one call of getMultiTimeframeAnalysis.  The call suspends at   *)
(* the HTTP requests of getCoinId; each iteration of the loop of lines     *)
(* 510-550 is one step, in which the environment chooses what the price    *)
(* sources answer and whether the body of the try raises an error.         *)
(* locals.sources and locals.faults record those choices.                  *)
(***************************************************************************)
\* the most iterations of one call whose try body raises an error
MaxFaults == 1

MtaSymbols == {"BTC", "Wif", "nope"}

\* answers of CoinGecko's coins/list
CoinListResponses ==
    { Failure,
      [ok |-> TRUE, data |-> <<>>],
      [ok |-> TRUE, data |-> << [id |-> "bitcoin-cash", symbol |-> "bch"],
                                [id |-> "dogwifcoin", symbol |-> "wif"] >>] }

\* answers of CoinCap's assets
CoinCapAssetsResponses ==
    { Failure,
      [ok |-> TRUE, data |-> [data |-> <<>>]],
      [ok |-> TRUE, data |-> [data |-> << [id |-> "dogwifhat", symbol |-> "WIF"] >>]] }

\* the random stream of the run
MtaStream == [k \in 1..RandPeriod |-> (k - 1) % RandDen]

\* what the price sources answer in one iteration: both fail, or CoinGecko
\* delivers three samples
MtaAnswers ==
    [ none |-> [coingecko |-> Failure, coincap |-> Failure],
      coingecko |->
        [ coingecko |->
            [ ok |-> TRUE,
              data |-> [ prices |-> << <<0, 10000>>, <<900, 20000>>,
                                       <<1800, 10000>> >>,
                         total_volumes |-> << <<0, 7>>, <<900, 7>>,
                                              <<1800, 7>> >> ] ],
          coincap |-> Failure ] ]

InitMTA ==
    /\ pc = "getMultiTimeframeAnalysis"
    /\ \E symbol \in MtaSymbols, now \in Clock :
         args = [symbol |-> symbol, now |-> now]
    /\ calls = <<>>
    /\ locals = [index |-> 0, sources |-> <<>>, faults |-> <<>>]
    /\ ret = Pending

\* lines 500-507, reached when getCoinId has returned coinId
MtaStartLoop(coinId) ==
    /\ pc' = "analyze"
    /\ locals' = [ coinId |-> coinId,
                   analysis |-> NewAnalysis(args.symbol, args.now),
                   index |-> 1, sources |-> <<>>, faults |-> <<>> ]
    /\ UNCHANGED ret

\* the rejection of getCoinId (line 114) leaves getMultiTimeframeAnalysis
\* at line 486, outside every try
MtaLookupFails(error) ==
    /\ pc' = "done"
    /\ ret' = Threw([message |-> "Gagal mengambil coin ID", cause |-> error])
    /\ UNCHANGED locals

\* lines 486, 77-85: the symbol is looked up in coinMap, then in CoinGecko's
\* list of coins
MtaCall ==
    /\ pc = "getMultiTimeframeAnalysis"
    /\ LET directId == Lookup(coinMap, toLowerCase(args.symbol)) IN
       IF Truthy(directId)
       THEN MtaStartLoop(directId.value) /\ UNCHANGED calls
       ELSE /\ pc' = "awaitCoinList"
            /\ calls' = Append(calls, [api |-> "coingecko", path |-> "coins/list"])
            /\ UNCHANGED <<locals, ret>>
    /\ UNCHANGED args

\* lines 85-100: the list arrives, or the request fails
MtaCoinListResponds ==
    /\ pc = "awaitCoinList"
    /\ \E resp \in CoinListResponses :
         IF ~resp.ok THEN MtaLookupFails("request failed") /\ UNCHANGED calls
         ELSE LET coin == Find(resp.data, args.symbol) IN
              IF Truthy(coin) THEN MtaStartLoop(coin.value.id) /\ UNCHANGED calls
              ELSE /\ pc' = "awaitCoinCapAssets"
                   /\ calls' = Append(calls, [api |-> "coincap", path |-> "assets"])
                   /\ UNCHANGED <<locals, ret>>
    /\ UNCHANGED args

\* lines 100-115: CoinCap's assets arrive, or the request fails
MtaCoinCapAssetsResponds ==
    /\ pc = "awaitCoinCapAssets"
    /\ \E resp \in CoinCapAssetsResponses :
         LET coincapCoin == IF resp.ok THEN Find(resp.data.data, args.symbol)
                            ELSE Undefined
         IN IF Truthy(coincapCoin) THEN MtaStartLoop(coincapCoin.value.id)
            ELSE MtaLookupFails("tidak ditemukan di database")
    /\ UNCHANGED <<args, calls>>

NumFaults == Cardinality({k \in 1..Len(locals.faults) : locals.faults[k]})

\* faulty variant: no catch, an error of the try body ends the call
MtaAnalyzeTimeframe_NoCatch ==
    /\ pc = "analyze"
    /\ locals.index <= Len(TIMEFRAMES)
    /\ \E source \in DOMAIN MtaAnswers, fault \in BOOLEAN :
         /\ fault => NumFaults < MaxFaults /\ source = "none"
         /\ LET timeframe == TIMEFRAMES[locals.index]
                result == getMarketDataByTimeframe(locals.coinId, timeframe,
                                                   MtaAnswers[source],
                                                   args.now, MtaStream)
            IN IF fault \/ result.kind = "threw"
               THEN /\ pc' = "done"
                    /\ ret' = Threw([message |-> "analysis failed"])
                    /\ UNCHANGED locals
               ELSE /\ locals' =
                         [locals EXCEPT
                            !.analysis.timeframes =
                                Append(@, TimeframeReport(timeframe, result.value)),
                            !.index = @ + 1,
                            !.sources = Append(@, source),
                            !.faults = Append(@, fault)]
                    /\ UNCHANGED <<pc, ret>>
    /\ UNCHANGED <<args, calls>>

\* lines 510-550: one iteration of the loop
MtaAnalyzeTimeframe ==
    /\ pc = "analyze"
    /\ locals.index <= Len(TIMEFRAMES)
    /\ \E source \in DOMAIN MtaAnswers, fault \in BOOLEAN :
         /\ fault => NumFaults < MaxFaults /\ source = "none"
         /\ LET timeframe == TIMEFRAMES[locals.index]
                result == getMarketDataByTimeframe(locals.coinId, timeframe,
                                                   MtaAnswers[source],
                                                   args.now, MtaStream)
                report == IF fault \/ result.kind = "threw"
                          THEN DegenerateReport(timeframe)
                          ELSE TimeframeReport(timeframe, result.value)
            IN locals' = [locals EXCEPT
                            !.analysis.timeframes = Append(@, report),
                            !.index = @ + 1,
                            !.sources = Append(@, source),
                            !.faults = Append(@, fault)]
    /\ UNCHANGED <<pc, args, calls, ret>>

\* faulty variant: the reduction does not wait for the last timeframe
MtaReduce_Early ==
    /\ pc = "analyze"
    /\ locals.index >= Len(TIMEFRAMES)
    /\ LET overall == generateOverallAnalysis(locals.analysis.timeframes)
           analysis == [locals.analysis EXCEPT
                          !.overallSentiment = overall.sentiment,
                          !.riskLevel = overall.risk,
                          !.tradingRecommendation = overall.recommendation]
       IN /\ locals' = [locals EXCEPT !.analysis = analysis]
          /\ ret' = Returned(analysis)
    /\ pc' = "done"
    /\ UNCHANGED <<args, calls>>

\* lines 552-558: the loop is over, the reduction runs and the call returns
MtaReduce ==
    /\ pc = "analyze"
    /\ locals.index > Len(TIMEFRAMES)
    /\ LET overall == generateOverallAnalysis(locals.analysis.timeframes)
           analysis == [locals.analysis EXCEPT
                          !.overallSentiment = overall.sentiment,
                          !.riskLevel = overall.risk,
                          !.tradingRecommendation = overall.recommendation]
       IN /\ locals' = [locals EXCEPT !.analysis = analysis]
          /\ ret' = Returned(analysis)
    /\ pc' = "done"
    /\ UNCHANGED <<args, calls>>

NextMTA ==
    \/ MtaCall
    \/ MtaCoinListResponds
    \/ MtaCoinCapAssetsResponds
    \/ MtaAnalyzeTimeframe
    \/ MtaReduce

SpecMTA == InitMTA /\ [][NextMTA]_vars

MtaReturned == pc = "done" /\ ret.kind = "returned"

\* getCoinId has returned an identifier
MtaResolved == "coinId" \in DOMAIN locals

\* the series the k-th iteration obtains when the sources answer as source
MtaSeriesOf(k, source) ==
    getMarketDataByTimeframe(locals.coinId, TIMEFRAMES[k], MtaAnswers[source],
                             args.now, MtaStream).value

\* C1 as stated: getMultiTimeframeAnalysis never fails as a whole, whatever
\* the identifier lookup and the price sources do; every call that ends,
\* ends by returning an analysis.
C1_NeverFails == pc = "done" => ret.kind = "returned"

\* C1, amended: the call fails as a whole exactly when the identifier
\* lookup getCoinId fails (the symbol is not in coinMap and the lists of
\* CoinGecko and CoinCap fail or do not hold it); once the identifier is
\* resolved, the call ends by returning an analysis, whatever the price
\* sources do and whichever iterations raise an error.
C1_FailsOnlyInLookup ==
    /\ pc = "analyze" => MtaResolved /\ ret = Pending
    /\ pc = "done" => (ret.kind = "returned" <=> MtaResolved)
    /\ (pc = "done" /\ ret.kind = "threw") =>
         /\ toLowerCase(args.symbol) \notin DOMAIN coinMap
         /\ Len(calls) >= 1
         /\ calls[1].path = "coins/list"

\* C1 witness: a symbol resolved through CoinGecko's list, an iteration in
\* which every price source failed, an iteration whose body raised an
\* error, and the call returned.
C1_Witness ==
    /\ MtaReturned
    /\ args.symbol = "Wif"
    /\ Len(calls) = 1
    /\ \E k \in 1..Len(locals.faults) : locals.faults[k]
    /\ \E k \in 1..Len(locals.faults) :
         ~locals.faults[k] /\ locals.sources[k] = "none"

\* C2: an iteration whose body raised an error appends the report with
\* empty data, trend 'Unknown', volatility 0 and priceChange 0, and the loop
\* goes on to the next timeframe; every other iteration appends the report
\* computed from its own series alone; no step changes a report appended
\* earlier, whichever iterations raised an error.
C2_FailureIsolated ==
    [][ pc = "analyze" =>
          LET reports == locals.analysis.timeframes
              k == locals.index
          IN IF pc' = "analyze"
             THEN /\ locals'.index = k + 1
                  /\ Len(locals'.analysis.timeframes) = k
                  /\ SubSeq(locals'.analysis.timeframes, 1, k - 1) = reports
                  /\ LET report == locals'.analysis.timeframes[k] IN
                     IF locals'.faults[k]
                     THEN /\ report.timeframe = TIMEFRAMES[k]
                          /\ report.data = <<>>
                          /\ report.trend = "Unknown"
                          /\ report.volatility = 0
                          /\ report.priceChange = 0
                     ELSE report =
                            TimeframeReport(TIMEFRAMES[k],
                                            MtaSeriesOf(k, locals'.sources[k]))
             ELSE /\ ret'.kind = "returned"
                  /\ ret'.value.timeframes = reports ]_vars

\* C2 witness: the second iteration raised an error, the first and the
\* third did not, and their reports carry data and a trend.
C2_Witness ==
    /\ MtaReturned
    /\ locals.faults[2] /\ ~locals.faults[1] /\ ~locals.faults[3]
    /\ ret.value.timeframes[2].trend = "Unknown"
    /\ \A k \in {1, 3} :
         /\ Len(ret.value.timeframes[k].data) > 0
         /\ ret.value.timeframes[k].trend # "Unknown"

\* C3: whenever the call returns, the list holds exactly nine reports, one
\* per code in the order 15m, 30m, 1h, 12h, 24h, 7d, 30d, 6M, 1Y, and the
\* overall fields are the reduction of exactly those nine; while reports
\* are still being appended the overall fields keep their initial values.
C3_NineReportsThenReduce ==
    LET codes == <<"15m", "30m", "1h", "12h", "24h", "7d", "30d", "6M", "1Y">> IN
    /\ MtaReturned =>
         LET overall == generateOverallAnalysis(ret.value.timeframes) IN
         /\ Len(ret.value.timeframes) = 9
         /\ \A k \in 1..9 : ret.value.timeframes[k].timeframe = codes[k]
         /\ ret.value.overallSentiment = overall.sentiment
         /\ ret.value.riskLevel = overall.risk
         /\ ret.value.tradingRecommendation = overall.recommendation
    /\ pc = "analyze" =>
         /\ Len(locals.analysis.timeframes) <= 9
         /\ \A k \in 1..Len(locals.analysis.timeframes) :
              locals.analysis.timeframes[k].timeframe = codes[k]
         /\ locals.analysis.overallSentiment = "Neutral"
         /\ locals.analysis.riskLevel = "Medium"
         /\ locals.analysis.tradingRecommendation = "Hold"

\* C3 witness: the call returned nine reports, one of them degraded, and
\* the reduction changed the risk level from its initial value.
C3_Witness ==
    /\ MtaReturned
    /\ Len(ret.value.timeframes) = 9
    /\ \E k \in 1..9 : ret.value.timeframes[k].trend = "Unknown"
    /\ ret.value.riskLevel = "High"
    /\ ret.value.tradingRecommendation = "Wait"

(***************************************************************************)
(* Properties of the Candle Aggregator against the reference bucketing.    *)
(***************************************************************************)
\* the indices of the samples whose floored timestamp is b
SamplesOfBucket(prices, intervalMs, b) ==
    {k \in 1..Len(prices) : BucketStart(prices[k][1], intervalMs) = b}

SetMin(S) == CHOOSE x \in S : \A y \in S : x <= y

SetMax(S) == CHOOSE x \in S : \A y \in S : x >= y

\* the candle the reference bucketing builds for bucket b
ReferenceCandle(prices, volumes, intervalMs, b) ==
    LET members == SamplesOfBucket(prices, intervalMs, b) IN
    [ timestamp |-> toISOString(b),
      open      |-> prices[SetMin(members)][2],
      close     |-> prices[SetMax(members)][2],
      high      |-> SetMax({prices[k][2] : k \in members}),
      low       |-> SetMin({prices[k][2] : k \in members}),
      volume    |-> SumSeq([k \in 1..Len(prices) |->
                              IF k \in members /\ k <= Len(volumes)
                              THEN volumes[k][2] ELSE 0]) ]

\* C11: for sorted samples the result is the reference bucketing: one candle
\* per distinct floored timestamp, stamped with it, built from exactly the
\* samples of that bucket (open first, close last, high and low the extrema,
\* volume the sum with a missing volume counted as 0); no samples give the
\* empty series and one sample gives one candle with open = high = low =
\* close.
C11_AggregateIsReferenceBucketing ==
    AggReturned =>
        LET prices == args.prices
            intervalMs == args.intervalMinutes * 60
            buckets == {BucketStart(prices[k][1], intervalMs) : k \in 1..Len(prices)}
            result == ret.value
        IN /\ Len(result) = Cardinality(buckets)
           /\ \A b \in buckets :
                \E j \in 1..Len(result) :
                  result[j] = ReferenceCandle(prices, args.volumes, intervalMs, b)
           /\ Len(prices) = 0 => result = <<>>
           /\ Len(prices) = 1 =>
                /\ Len(result) = 1
                /\ result[1].open = prices[1][2]
                /\ result[1].high = prices[1][2]
                /\ result[1].low = prices[1][2]
                /\ result[1].close = prices[1][2]

\* C11 witness: four samples in two buckets, the last bucket holding a
\* single sample, and the volume array shorter than the price array.
C11_Witness ==
    /\ AggReturned
    /\ Len(args.prices) = 4
    /\ Len(args.volumes) = 2
    /\ Len(ret.value) = 2
    /\ BucketStart(args.prices[3][1], args.intervalMinutes * 60)
         # BucketStart(args.prices[4][1], args.intervalMinutes * 60)
    /\ ret.value[1].high > ret.value[1].low
    /\ ret.value[1].volume = 10
    /\ ret.value[2].volume = 0

(***************************************************************************)
(* SpecInd: applyIndicators called on a candle series, called a second     *)
(* time on the same series, and called on its own output.  The closes of   *)
(* a series rise or fall by a fixed step up to a turning candle and by     *)
(* another step after it.                                                  *)
(***************************************************************************)
\* longest candle series handed to applyIndicators
MaxCandles == 22

\* close-to-close steps, in units of 1/100 USD
IndSlopes == {-100, 0, 100}

IndBase == {10000}

\* the closes of a series of n candles turning at candle turn
IndCloses(n, base, before, after, turn) ==
    [ k \in 1..n |->
        base + before * (Min2(k, turn) - 1) + after * Max2(k - turn, 0) ]

\* a candle of a single-price source, with or without a volume
IndCandle(closes, k, withVolume) ==
    LET close == closes[k]
        prevClose == IF k > 1 THEN closes[k - 1] ELSE close
        candle == [ timestamp |-> toISOString(900 * k), open |-> prevClose,
                    high |-> Max2(close, prevClose),
                    low |-> Min2(close, prevClose), close |-> close ]
    IN IF withVolume THEN candle @@ [volume |-> 5] ELSE candle

IndSeries ==
    { [k \in 1..n |-> IndCandle(IndCloses(n, base, before, after, turn), k, wv)] :
        n \in 0..MaxCandles, base \in IndBase, before \in IndSlopes,
        after \in IndSlopes, turn \in 1..MaxCandles, wv \in BOOLEAN }

InitInd ==
    /\ pc = "applyIndicators"
    /\ \E data \in IndSeries : args = [data |-> data]
    /\ calls = <<>>
    /\ locals = <<>>
    /\ ret = Pending

\* lines 422-439: the call under study
IndCall ==
    /\ pc = "applyIndicators"
    /\ pc' = "again"
    /\ ret' = Returned(applyIndicators(args.data))
    /\ UNCHANGED <<args, calls, locals>>

\* a second call on the same series
IndCallAgain ==
    /\ pc = "again"
    /\ pc' = "onOutput"
    /\ locals' = [second |-> applyIndicators(args.data)]
    /\ UNCHANGED <<args, calls, ret>>

\* a call on the output of the first call
IndCallOnOutput ==
    /\ pc = "onOutput"
    /\ pc' = "done"
    /\ locals' = locals @@ [onOutput |-> applyIndicators(ret.value)]
    /\ UNCHANGED <<args, calls, ret>>

NextInd == IndCall \/ IndCallAgain \/ IndCallOnOutput

SpecInd == InitInd /\ [][NextInd]_vars

IndReturned == pc \in {"again", "onOutput", "done"} /\ ret.kind = "returned"

IndicatorFields ==
    {"ema_20", "rsi_14", "bb_upper", "bb_lower", "macd", "macd_signal", "obv"}

\* the closes of the series of the call
IndClosesOf == [k \in 1..Len(args.data) |-> args.data[k].close]

\* sum of the gains (up = TRUE) or losses of the 14 close-to-close steps
\* ending at the candle of JavaScript index i >= 14
StepSum(closes, i, up) ==
    SumSeq([j \in 1..14 |->
              LET change == closes[i - 14 + j + 1] - closes[i - 14 + j]
              IN IF up THEN Max2(change, 0) ELSE Max2(0 - change, 0)])

\* C12: the call returns a series of the same length and order in which
\* each candle has exactly the timestamp, open, high, low, close and volume
\* of the input candle at that index and, besides them, only the indicator
\* fields; the input series is left as it was.
C12_PreservesCandles ==
    [][ pc = "applyIndicators" =>
          /\ args' = args
          /\ ret'.kind = "returned"
          /\ Len(ret'.value) = Len(args.data)
          /\ \A k \in 1..Len(args.data) :
               /\ DOMAIN ret'.value[k] = DOMAIN args.data[k] \cup IndicatorFields
               /\ \A f \in DOMAIN args.data[k] :
                    ret'.value[k][f] = args.data[k][f] ]_vars

\* C12 witness: a series of 21 candles without volume whose candle 20 opens
\* away from its close came back with an EMA attached and the candle intact.
C12_Witness ==
    /\ IndReturned
    /\ Len(args.data) = 21
    /\ "volume" \notin DOMAIN args.data[21]
    /\ args.data[21].open # args.data[21].close
    /\ ret.value[21].ema_20 > 0
    /\ ret.value[21].open = args.data[21].open
    /\ "volume" \notin DOMAIN ret.value[21]

\* C13: a candle index at which an indicator has not enough history (ema_20,
\* bb_upper, bb_lower below index 19; rsi_14 below index 14) carries no
\* value for that indicator (the property is undefined), never a number.
C13_MarkerWhereNoHistory ==
    IndReturned =>
        \A k \in 1..Len(ret.value) :
          LET index == k - 1 IN
          /\ index < 19 => /\ "ema_20" \notin DOMAIN ret.value[k]
                           /\ "bb_upper" \notin DOMAIN ret.value[k]
                           /\ "bb_lower" \notin DOMAIN ret.value[k]
          /\ index < 14 => "rsi_14" \notin DOMAIN ret.value[k]

\* C14: when the closes strictly decrease over the 14 close-to-close steps
\* ending at candle i, the rsi_14 attached to candle i is 0.
C14_RsiZeroOnDecrease ==
    IndReturned =>
        \A k \in 1..Len(ret.value) :
          LET i == k - 1 IN
          (i >= 14 /\ \A j \in (i - 13)..i : IndClosesOf[j + 1] < IndClosesOf[j])
            => ret.value[k].rsi_14 = 0

\* C15: for every candle index i >= 14 the attached rsi_14 is
\* 100 - 100 / (1 + meanGain / meanLoss) over the 14 steps ending at candle
\* i, and 100 when the mean loss is zero; every attached rsi_14 lies
\* between 0 and 100.
C15_RsiFormula ==
    IndReturned =>
        \A k \in 1..Len(ret.value) :
          LET i == k - 1
              sumGain == StepSum(IndClosesOf, i, TRUE)
              sumLoss == StepSum(IndClosesOf, i, FALSE)
          IN /\ ret.value[k].rsi_14 >= 0
             /\ ret.value[k].rsi_14 <= 100 * 1000
             /\ i >= 14 =>
                  ret.value[k].rsi_14 =
                    IF sumLoss = 0 THEN 100 * 1000
                    ELSE 100 * 1000 - (100 * 1000 * sumLoss) \div (sumGain + sumLoss)

MaxCloses == 6

\* closes of 10 and 20 USD
EmaCloses == {1000, 2000}

EmaPeriods == {2, 3, 5}

InitEma ==
    /\ pc = "calculateEMA"
    /\ \E data \in SeqsUpTo(EmaCloses, MaxCloses), period \in EmaPeriods :
         args = [data |-> data, period |-> period]
    /\ calls = <<>>
    /\ locals = <<>>
    /\ ret = Pending

CallCalculateEMA ==
    /\ pc = "calculateEMA"
    /\ pc' = "done"
    /\ ret' = Returned(calculateEMA(args.data, args.period))
    /\ UNCHANGED <<args, calls, locals>>

NextEma == CallCalculateEMA

SpecEma == InitEma /\ [][NextEma]_vars

EmaReturned == pc = "done" /\ ret.kind = "returned"

\* C16: given at least period closes, the value at index period - 1 is the
\* arithmetic mean of the first period closes, every later index i holds
\* (close[i] - EMA[i-1]) * 2 / (period + 1) + EMA[i-1], and no index below
\* period - 1 holds a value; closes 10,10,10,10,10,20 with period 5 give
\* EMA[4] = 10 and EMA[5] = 40/3 (13.33 to the unit of 1/100).
C16_EmaSeedAndRecurrence ==
    (EmaReturned /\ Len(args.data) >= args.period) =>
        LET ema == ret.value
            period == args.period
        IN /\ DOMAIN ema = (period - 1)..(Len(args.data) - 1)
           /\ ema[period - 1] = SumSeq(SubSeq(args.data, 1, period)) \div period
           /\ \A i \in period..(Len(args.data) - 1) :
                ema[i] = ((args.data[i + 1] - ema[i - 1]) * 2) \div (period + 1)
                           + ema[i - 1]
           /\ (args.data = <<1000, 1000, 1000, 1000, 1000, 2000>> /\ period = 5)
                => ema[4] = 1000 /\ ema[5] = 1333

\* C16 witness: the call on closes 10,10,10,10,10,20 with period 5 returned.
C16_Witness ==
    /\ EmaReturned
    /\ args.data = <<1000, 1000, 1000, 1000, 1000, 2000>>
    /\ args.period = 5
    /\ ret.value[5] = 1333

(***************************************************************************)
(* SpecClassify: the classification of one timeframe (lines 513-516) on a  *)
(* short series with arbitrary closes.                                     *)
(***************************************************************************)
\* longest series handed to the classification
MaxClassify == 5

ClassifyCloses == {10000, 15000, 20000}

InitClassify ==
    /\ pc = "classify"
    /\ \E closes \in SeqsUpTo(ClassifyCloses, MaxClassify) :
         args = [data |-> [k \in 1..Len(closes) |-> IndCandle(closes, k, TRUE)]]
    /\ calls = <<>>
    /\ locals = <<>>
    /\ ret = Pending

\* lines 513-516
Classify ==
    /\ pc = "classify"
    /\ pc' = "done"
    /\ ret' = Returned([ trend |-> detectTrend(applyIndicators(args.data)),
                         volatility |-> calculateVolatility(args.data),
                         priceChange |-> calculatePriceChange(args.data) ])
    /\ UNCHANGED <<args, calls, locals>>

NextClassify == Classify

SpecClassify == InitClassify /\ [][NextClassify]_vars

ClassifyReturned == pc = "done" /\ ret.kind = "returned"

\* all close-to-close ratios of the series are the same
SameRatios(data) ==
    \A j, k \in 1..(Len(data) - 1) :
      data[j + 1].close * data[k].close = data[k + 1].close * data[j].close

SinglePricePath ==
    \/ locals.coingecko = "data" /\ args.timeframe \notin {"15m", "30m", "12h"}
    \/ locals.coincap = "data"

\* C20: every candle the call returns, whichever path produced it, has
\* high >= max(open, close) and low <= min(open, close); on the paths that
\* build a candle from a single price the open of a candle is the close of
\* the sample before it.
C20_CandleShape ==
    (pc = "done" /\ ret.kind = "returned") =>
        \A k \in 1..Len(ret.value) :
          LET candle == ret.value[k] IN
          /\ candle.high >= Max2(candle.open, candle.close)
          /\ candle.low <= Min2(candle.open, candle.close)
          /\ SinglePricePath =>
               /\ candle.open = locals.samples[k]
               /\ candle.close = locals.samples[k + 1]

\* C20 witness: CoinGecko's samples used directly for '1h' gave a falling
\* candle whose high lies above its open, opened at the sample before it.
C20_Witness ==
    /\ pc = "done" /\ ret.kind = "returned"
    /\ args.timeframe = "1h"
    /\ locals.coingecko = "data"
    /\ Len(ret.value) = 2
    /\ ret.value[2].close < ret.value[2].open
    /\ ret.value[2].high > ret.value[2].open
    /\ ret.value[2].open = locals.samples[2]

(***************************************************************************)
(* SpecConc: two calls of getMultiTimeframeAnalysis in flight at once.     *)
(* pc, args and ret hold one entry per call; locals.call holds the local   *)
(* variables of each call and locals.module the module-level state of the  *)
(* service, the table TIMEFRAME_CONFIG.  A call yields at every await, so  *)
(* the steps of the two calls interleave freely.  What the collaborators   *)
(* answer to a call (the lists of coins, the price sources, the draws of   *)
(* Math.random, the errors raised inside the try) is fixed per call by its *)
(* feed.                                                                   *)
(***************************************************************************)
\* lines 53-116 run to completion on the answers of the two lists
getCoinId(symbol, coinList, coinCapAssets) ==
    LET directId == Lookup(coinMap, toLowerCase(symbol))
        coin == IF coinList.ok THEN Find(coinList.data, symbol) ELSE Undefined
        coincapCoin == IF coinCapAssets.ok
                       THEN Find(coinCapAssets.data.data, symbol)
                       ELSE Undefined
    IN IF Truthy(directId) THEN Returned(directId.value)
       ELSE IF ~coinList.ok
       THEN Threw([message |-> "Gagal mengambil coin ID", cause |-> "request failed"])
       ELSE IF Truthy(coin) THEN Returned(coin.value.id)
       ELSE IF Truthy(coincapCoin) THEN Returned(coincapCoin.value.id)
       ELSE Threw([ message |-> "Gagal mengambil coin ID",
                    cause |-> "tidak ditemukan di database" ])

Calls == {1, 2}

ConcSymbols == {"BTC", "Wif"}

\* what the collaborators answer to one call: the two lists of coins, per
\* iteration the answering price source and whether the try body raises an
\* error, and the draws of Math.random
ConcFeeds ==
    [ degraded |->
        [ coinList |-> [ok |-> TRUE,
                        data |-> << [id |-> "dogwifcoin", symbol |-> "wif"] >>],
          coinCapAssets |-> Failure,
          source |-> [k \in 1..Len(TIMEFRAMES) |->
                        IF k \in {2, 8, 9} THEN "none" ELSE "coingecko"],
          fault |-> [k \in 1..Len(TIMEFRAMES) |-> k = 2],
          rs |-> MtaStream ],
      direct |->
        [ coinList |-> [ok |-> TRUE, data |-> <<>>],
          coinCapAssets |->
              [ok |-> TRUE,
               data |-> [data |-> << [id |-> "dogwifhat", symbol |-> "WIF"] >>]],
          source |-> [k \in 1..Len(TIMEFRAMES) |->
                        IF k = 9 THEN "none" ELSE "coingecko"],
          fault |-> [k \in 1..Len(TIMEFRAMES) |-> FALSE],
          rs |-> [k \in 1..RandPeriod |-> k % RandDen] ],
      down |->
        [ coinList |-> Failure,
          coinCapAssets |-> Failure,
          source |-> [k \in 1..Len(TIMEFRAMES) |->
                        IF k = 9 THEN "none" ELSE "coingecko"],
          fault |-> [k \in 1..Len(TIMEFRAMES) |-> k = 9],
          rs |-> MtaStream ] ]

\* the report of iteration k of a call for coinId under a feed
ConcReport(coinId, now, feed, k) ==
    LET timeframe == TIMEFRAMES[k]
        result == getMarketDataByTimeframe(coinId, timeframe,
                                           MtaAnswers[feed.source[k]],
                                           now, feed.rs)
    IN IF feed.fault[k] \/ result.kind = "threw"
       THEN DegenerateReport(timeframe)
       ELSE TimeframeReport(timeframe, result.value)

\* lines 552-556
Reduced(analysis) ==
    LET overall == generateOverallAnalysis(analysis.timeframes) IN
    [analysis EXCEPT !.overallSentiment = overall.sentiment,
                     !.riskLevel = overall.risk,
                     !.tradingRecommendation = overall.recommendation]

\* lines 485-559 run to completion: the result of one call on its own
getMultiTimeframeAnalysis(symbol, now, feed) ==
    LET coinId == getCoinId(symbol, feed.coinList, feed.coinCapAssets)
        reports == [k \in 1..Len(TIMEFRAMES) |->
                      ConcReport(coinId.value, now, feed, k)]
    IN IF coinId.kind = "threw" THEN coinId
       ELSE Returned(Reduced([NewAnalysis(symbol, now) EXCEPT
                                !.timeframes = reports]))

InitConc ==
    /\ pc = [c \in Calls |-> "getMultiTimeframeAnalysis"]
    /\ \E now \in Clock :
         args \in [Calls -> [symbol : ConcSymbols, now : {now}]]
    /\ calls = <<>>
    /\ \E feeds \in [Calls -> DOMAIN ConcFeeds] :
         locals = [ module |-> [TIMEFRAME_CONFIG |-> TIMEFRAME_CONFIG],
                    call |-> [c \in Calls |-> [index |-> 0, feed |-> feeds[c]]] ]
    /\ ret = [c \in Calls |-> Pending]

\* lines 500-507 of call c, reached when its getCoinId has returned coinId
ConcStartLoop(c, coinId) ==
    /\ pc' = [pc EXCEPT ![c] = "analyze"]
    /\ locals' = [locals EXCEPT
                    !.call[c] = [ coinId |-> coinId,
                                  analysis |-> NewAnalysis(args[c].symbol,
                                                           args[c].now),
                                  index |-> 1,
                                  feed |-> @.feed ]]
    /\ UNCHANGED ret

\* line 114 of call c
ConcLookupFails(c, error) ==
    /\ pc' = [pc EXCEPT ![c] = "done"]
    /\ ret' = [ret EXCEPT ![c] = Threw([ message |-> "Gagal mengambil coin ID",
                                         cause |-> error ])]
    /\ UNCHANGED locals

\* lines 486, 77-85 of call c
ConcCall(c) ==
    /\ pc[c] = "getMultiTimeframeAnalysis"
    /\ LET directId == Lookup(coinMap, toLowerCase(args[c].symbol)) IN
       IF Truthy(directId)
       THEN ConcStartLoop(c, directId.value) /\ UNCHANGED calls
       ELSE /\ pc' = [pc EXCEPT ![c] = "awaitCoinList"]
            /\ calls' = Append(calls, [ call |-> c, api |-> "coingecko",
                                        path |-> "coins/list" ])
            /\ UNCHANGED <<locals, ret>>
    /\ UNCHANGED args

\* lines 85-100 of call c
ConcCoinListResponds(c) ==
    /\ pc[c] = "awaitCoinList"
    /\ LET resp == ConcFeeds[locals.call[c].feed].coinList IN
       IF ~resp.ok THEN ConcLookupFails(c, "request failed") /\ UNCHANGED calls
       ELSE LET coin == Find(resp.data, args[c].symbol) IN
            IF Truthy(coin) THEN ConcStartLoop(c, coin.value.id) /\ UNCHANGED calls
            ELSE /\ pc' = [pc EXCEPT ![c] = "awaitCoinCapAssets"]
                 /\ calls' = Append(calls, [ call |-> c, api |-> "coincap",
                                             path |-> "assets" ])
                 /\ UNCHANGED <<locals, ret>>
    /\ UNCHANGED args

\* lines 100-115 of call c
ConcCoinCapAssetsResponds(c) ==
    /\ pc[c] = "awaitCoinCapAssets"
    /\ LET resp == ConcFeeds[locals.call[c].feed].coinCapAssets
           coincapCoin == IF resp.ok THEN Find(resp.data.data, args[c].symbol)
                          ELSE Undefined
       IN IF Truthy(coincapCoin) THEN ConcStartLoop(c, coincapCoin.value.id)
          ELSE ConcLookupFails(c, "tidak ditemukan di database")
    /\ UNCHANGED <<args, calls>>

\* faulty variant: the reports of both calls go to the list of call 1, as if
\* analysis were a module-level object
ConcAnalyzeTimeframe_SharedList(c) ==
    /\ pc[c] = "analyze"
    /\ locals.call[c].index <= Len(TIMEFRAMES)
    /\ pc[1] = "analyze"
    /\ LET mine == locals.call[c]
           report == ConcReport(mine.coinId, args[c].now, ConcFeeds[mine.feed],
                                mine.index)
       IN locals' = [locals EXCEPT
                       !.call[1].analysis.timeframes = Append(@, report),
                       !.call[c].index = @ + 1]
    /\ UNCHANGED <<pc, args, calls, ret>>

\* lines 510-550 of call c: one iteration of the loop
ConcAnalyzeTimeframe(c) ==
    /\ pc[c] = "analyze"
    /\ locals.call[c].index <= Len(TIMEFRAMES)
    /\ LET mine == locals.call[c]
           report == ConcReport(mine.coinId, args[c].now, ConcFeeds[mine.feed],
                                mine.index)
       IN locals' = [locals EXCEPT
                       !.call[c].analysis.timeframes = Append(@, report),
                       !.call[c].index = @ + 1]
    /\ UNCHANGED <<pc, args, calls, ret>>

\* lines 552-558 of call c
ConcReduce(c) ==
    /\ pc[c] = "analyze"
    /\ locals.call[c].index > Len(TIMEFRAMES)
    /\ LET analysis == Reduced(locals.call[c].analysis) IN
       /\ locals' = [locals EXCEPT !.call[c].analysis = analysis]
       /\ ret' = [ret EXCEPT ![c] = Returned(analysis)]
    /\ pc' = [pc EXCEPT ![c] = "done"]
    /\ UNCHANGED <<args, calls>>

ConcStep(c) ==
    \/ ConcCall(c)
    \/ ConcCoinListResponds(c)
    \/ ConcCoinCapAssetsResponds(c)
    \/ ConcAnalyzeTimeframe(c)
    \/ ConcReduce(c)

NextConc == \E c \in Calls : ConcStep(c)

SpecConc == InitConc /\ [][NextConc]_vars

\* what call c returns when it runs alone on the answers of its feed
ConcAlone(c) ==
    getMultiTimeframeAnalysis(args[c].symbol, args[c].now,
                              ConcFeeds[locals.call[c].feed])

\* the state owned by call c
ConcOwned(c) == <<pc[c], args[c], locals.call[c], ret[c]>>

GenCoinIds == {"bitcoin", "ethereum", "dogwifcoin"}

GenTimeframes == {"6M", "1Y"}

InitMock ==
    /\ pc = "generateMockDataByTimeframe"
    /\ args \in [coinId : GenCoinIds, timeframe : GenTimeframes, now : Clock]
    /\ calls = <<>>
    /\ locals = <<>>
    /\ ret = Pending

\* lines 316-342, first invocation
GenCall ==
    /\ pc = "generateMockDataByTimeframe"
    /\ \E rs \in RandStreams :
         /\ ret' = Returned(generateMockDataByTimeframe(args.coinId, args.timeframe,
                                                        args.now, rs))
         /\ locals' = [rs |-> rs]
    /\ pc' = "again"
    /\ UNCHANGED <<args, calls>>

\* lines 316-342, second invocation with the same arguments
GenCallAgain ==
    /\ pc = "again"
    /\ \E rs \in RandStreams :
         /\ ret' = Returned(generateMockDataByTimeframe(args.coinId, args.timeframe,
                                                        args.now, rs))
         /\ locals' = [rs |-> rs, first |-> ret.value]
    /\ pc' = "done"
    /\ UNCHANGED <<args, calls>>

NextMock == GenCall \/ GenCallAgain

SpecMock == InitMock /\ [][NextMock]_vars

\* C22: two invocations of generateMockDataByTimeframe with the same
\* identifier and timeframe at the same clock time produce the same series.
C22_SameSeriesOnRepeat == pc = "done" => ret.value = locals.first

(***************************************************************************)
(* SpecTrend: one call of detectTrend on a series of annotated candles.    *)
(* The EMA and the RSI of the latest candle and the EMAs of the two        *)
(* candles four and five positions before it range over present and        *)
(* missing values.                                                         *)
(***************************************************************************)
\* the longest series given to detectTrend
MaxTrend == 7

\* ema_20 of a candle, where present
TrendEmas == {Undefined, Own(10000), Own(20000)}

\* rsi_14 of a candle, where present, in units of 1/1000
TrendRsis == {Undefined} \cup {Own(1000 * r) : r \in {40, 45, 50, 55, 60}}

\* a candle annotated with the indicators that are present
TrendCandle(ema, rsi) ==
    LET candle == [ timestamp |-> toISOString(0), open |-> 10000, high |-> 10000,
                    low |-> 10000, close |-> 10000, volume |-> 0 ]
        withEma == IF ema.kind = "own" THEN [ema_20 |-> ema.value] @@ candle
                   ELSE candle
    IN IF rsi.kind = "own" THEN [rsi_14 |-> rsi.value] @@ withEma ELSE withEma

\* the series of n candles whose latest candle carries ema and rsi and whose
\* candles four and five positions earlier carry the EMAs ema4 and ema5
TrendSeries(n, ema, rsi, ema4, ema5) ==
    [ k \in 1..n |->
        IF k = n THEN TrendCandle(ema, rsi)
        ELSE IF k = n - 4 THEN TrendCandle(ema4, Own(50000))
        ELSE IF k = n - 5 THEN TrendCandle(ema5, Own(50000))
        ELSE TrendCandle(Own(15000), Own(50000)) ]

InitTrend ==
    /\ pc = "detectTrend"
    /\ \E n \in 0..MaxTrend, ema, ema4, ema5 \in TrendEmas, rsi \in TrendRsis :
         args = [data |-> TrendSeries(n, ema, rsi, ema4, ema5)]
    /\ calls = <<>>
    /\ locals = <<>>
    /\ ret = Pending

\* lines 441-458
CallDetectTrend ==
    /\ pc = "detectTrend"
    /\ ret' = Returned(detectTrend(args.data))
    /\ pc' = "done"
    /\ UNCHANGED <<args, calls, locals>>

NextTrend == CallDetectTrend

SpecTrend == InitTrend /\ [][NextTrend]_vars

TrendReturned == pc = "done" /\ ret.kind = "returned"

\* the EMA of the candle at JS index i, 0 where it is missing
EmaAt(data, i) == Field(data[i + 1], "ema_20", 0)

\* the RSI of the candle at JS index i, 50 where it is missing
RsiAt(data, i) == Field(data[i + 1], "rsi_14", 50 * 1000)

\* C23: on at least 5 annotated candles detectTrend returns 'Uptrend'
\* exactly when EMA(latest) > EMA(reference) and RSI(latest) > 55,
\* 'Downtrend' exactly when EMA(latest) < EMA(reference) and RSI(latest) < 45
\* and 'Sideways' otherwise, a missing EMA counting as 0 and a missing RSI as
\* 50; the call never raises and its result is one of the four strings.
\* The reference is the candle detectTrend reads, data[data.length - 5].
C23_TrendRule ==
    pc = "done" =>
      /\ ret.kind = "returned"
      /\ ret.value \in {"Insufficient data", "Uptrend", "Downtrend", "Sideways"}
      /\ Len(args.data) >= 5 =>
           LET last == Len(args.data) - 1
               latestEma == EmaAt(args.data, last)
               referenceEma == EmaAt(args.data, Len(args.data) - 5)
               latestRsi == RsiAt(args.data, last)
           IN /\ ret.value = "Uptrend" <=>
                   (latestEma > referenceEma /\ latestRsi > 55000)
              /\ ret.value = "Downtrend" <=>
                   (latestEma < referenceEma /\ latestRsi < 45000)
              /\ ret.value = "Sideways" <=>
                   ~(latestEma > referenceEma /\ latestRsi > 55000)
                   /\ ~(latestEma < referenceEma /\ latestRsi < 45000)

\* C23 witness: a latest candle without EMA and with RSI 40 against a
\* reference with an EMA gives 'Downtrend'.
C23_Witness ==
    /\ TrendReturned
    /\ Len(args.data) >= 5
    /\ "ema_20" \notin DOMAIN args.data[Len(args.data)]
    /\ RsiAt(args.data, Len(args.data) - 1) = 40000
    /\ EmaAt(args.data, Len(args.data) - 5) > 0
    /\ ret.value = "Downtrend"

\* the rule of lines 451-457 on the three values it compares
TrendRule(latestEma, referenceEma, latestRsi) ==
    IF latestEma > referenceEma /\ latestRsi > 55000 THEN "Uptrend"
    ELSE IF latestEma < referenceEma /\ latestRsi < 45000 THEN "Downtrend"
    ELSE "Sideways"

\* data with the EMA of the candle at JS index i replaced
WithEma(data, i, ema) ==
    [data EXCEPT ![i + 1] = TrendCandle(ema, Own(RsiAt(data, i)))]

\* C24 as stated: the reference candle is five positions before the latest
\* one, at index last-5 when the latest candle is at index last.
C24_ReferenceFiveBack ==
    (pc = "done" /\ Len(args.data) >= 6) =>
      LET last == Len(args.data) - 1 IN
      ret.value = TrendRule(EmaAt(args.data, last), EmaAt(args.data, last - 5),
                            RsiAt(args.data, last))

\* C24, amended: the reference candle is four positions before the latest
\* one, at index last-4 when the latest candle is at index last (the first
\* of the last five candles, data[data.length - 5]); the EMA of no other
\* candle, that of index last-5 included, has any influence on the result.
C24_ReferenceFourBack ==
    (pc = "done" /\ Len(args.data) >= 5) =>
      LET last == Len(args.data) - 1 IN
      /\ ret.value = TrendRule(EmaAt(args.data, last), EmaAt(args.data, last - 4),
                               RsiAt(args.data, last))
      /\ \A i \in (0..last) \ {last, last - 4}, ema \in TrendEmas :
           detectTrend(WithEma(args.data, i, ema)) = ret.value

\* C24 witness: at least 6 candles, and the EMA of the candle at last-5
\* would have given another trend than the one returned.
C24_Witness ==
    /\ TrendReturned
    /\ Len(args.data) >= 6
    /\ LET last == Len(args.data) - 1 IN
       /\ ret.value = "Uptrend"
       /\ TrendRule(EmaAt(args.data, last), EmaAt(args.data, last - 5),
                    RsiAt(args.data, last)) = "Sideways"

(***************************************************************************)
(* SpecHalfDay: one call of aggregateToHalfDay on a price list and the     *)
(* volume list of the same length, as a CoinGecko response delivers them.  *)
(***************************************************************************)
\* the most entries given to aggregateToHalfDay
MaxHalfDay == 4

HalfDayPrices == {10000, 20000}

HalfDayVolumes == {5, 7}

InitHalfDay ==
    /\ pc = "aggregateToHalfDay"
    /\ \E n \in 0..MaxHalfDay :
         \E ps \in [1..n -> HalfDayPrices], vs \in [1..n -> HalfDayVolumes] :
           args = [ prices  |-> [k \in 1..n |-> <<(k - 1) * 86400, ps[k]>>],
                    volumes |-> [k \in 1..n |-> <<(k - 1) * 86400, vs[k]>>] ]
    /\ calls = <<>>
    /\ locals = <<>>
    /\ ret = Pending

\* lines 276-297
CallAggregateToHalfDay ==
    /\ pc = "aggregateToHalfDay"
    /\ ret' = Returned(aggregateToHalfDay(args.prices, args.volumes))
    /\ pc' = "done"
    /\ UNCHANGED <<args, calls, locals>>

NextHalfDay == CallAggregateToHalfDay

SpecHalfDay == InitHalfDay /\ [][NextHalfDay]_vars

\* C25: on n entries aggregateToHalfDay returns ceil(n/2) candles; candle k
\* opens at the price of entry 2k, closes at the price of entry 2k+1 (of
\* entry 2k when that entry is absent), has the extrema of the merged
\* prices as high and low and the sum of the merged entries' volumes as
\* volume, every entry's volume counted once: the volumes of the output add
\* up to the volumes of the input, also for odd n.
C25_HalfDayMerge ==
    pc = "done" =>
      LET n == Len(args.prices)
          out == ret.value
          merged(k) == {i \in {2 * k, 2 * k + 1} : i < n}
      IN /\ Len(out) = (n + 1) \div 2
         /\ \A k \in 0..(Len(out) - 1) :
              LET candle == out[k + 1]
                  prices == {args.prices[i + 1][2] : i \in merged(k)}
              IN /\ candle.open = args.prices[2 * k + 1][2]
                 /\ candle.close = args.prices[SetMax(merged(k)) + 1][2]
                 /\ candle.high = SetMax(prices)
                 /\ candle.low = SetMin(prices)
                 /\ candle.volume =
                      SumSeq([j \in 1..Cardinality(merged(k)) |->
                                args.volumes[2 * k + j][2]])
         /\ SumSeq([k \in 1..Len(out) |-> out[k].volume])
              = SumSeq([i \in 1..n |-> args.volumes[i][2]])

(***************************************************************************)
(* SpecShort: the classification of lines 513-516 on the series of         *)
(* SpecInd, of 0 to MaxCandles candles.                                    *)
(***************************************************************************)
InitShort ==
    /\ pc = "classify"
    /\ \E data \in IndSeries : args = [data |-> data]
    /\ calls = <<>>
    /\ locals = <<>>
    /\ ret = Pending

SpecShort == InitShort /\ [][NextClassify]_vars

\* the counters of generateOverallAnalysis before the first report
NoCounts ==
    [validTimeframes |-> 0, totalVolatility |-> 0, bullishCount |-> 0,
     bearishCount |-> 0]

\* C26: for every series of 5 to 19 candles applyIndicators followed by
\* detectTrend yields 'Sideways', and the report of such a series adds
\* nothing to the bullish or the bearish count of the synthesis.
C26_ShortSeriesSideways ==
    (pc = "done" /\ Len(args.data) \in 5..19) =>
      /\ ret.value.trend = "Sideways"
      /\ LET counts == OverallStep(NoCounts, [ data |-> args.data,
                                               trend |-> ret.value.trend,
                                               volatility |-> ret.value.volatility ])
         IN counts.bullishCount = 0 /\ counts.bearishCount = 0

\* C26 witness: 19 candles that rise throughout, with an RSI above 55 on
\* the latest candle, classified 'Sideways'.
C26_Witness ==
    /\ ClassifyReturned
    /\ Len(args.data) = 19
    /\ \A k \in 2..19 : args.data[k].close > args.data[k - 1].close
    /\ applyIndicators(args.data)[19].rsi_14 > 55000
    /\ ret.value.trend = "Sideways"

(***************************************************************************)
(* The route action (part_001, lines 42-108).  A message is the list of    *)
(* its words; the regular expressions of lines 46-52 are applied word by   *)
(* word.  The text of an analysis is kept as the record of its variable    *)
(* parts.                                                                  *)
(***************************************************************************)
\* the words of the messages below that match ^[a-zA-Z]{2,10}$
AlphaWords == {"Check", "BTC", "Wif", "nope", "all"}

\* the first of the positions hits of a message, 0 if there is none
FirstOf(hits) ==
    IF hits = {} THEN 0 ELSE CHOOSE k \in hits : \A j \in hits : k <= j

\* lines 46-47: the symbol group of the first expression that matches
symbolMatch(message) ==
    LET afterVerb ==
            {k \in 2..Len(message) :
               /\ toLowerCase(message[k - 1]) \in {"analyze", "check", "show", "get"}
               /\ message[k] \in AlphaWords}
        anyWord == FirstOf({k \in 1..Len(message) : message[k] \in AlphaWords})
    IN IF afterVerb # {}
       THEN Own(message[FirstOf(afterVerb)])
       ELSE IF anyWord > 0 THEN Own(message[anyWord])
       ELSE Undefined

\* lines 49-50: /\b(15m|30m|1h|12h|24h|7d|30d|6M|1Y)\b/i, lower-cased
requestedTimeframe(message) ==
    LET codes == {toLowerCase(tf) : tf \in DOMAIN TIMEFRAME_CONFIG}
        k == FirstOf({j \in 1..Len(message) : toLowerCase(message[j]) \in codes})
    IN IF k > 0 THEN toLowerCase(message[k]) ELSE "24h"

\* line 52
isMultiTimeframeRequest(message) ==
    \E k \in 1..Len(message) :
        toLowerCase(message[k]) \in {"multi", "multiple", "all", "various"}

\* lines 110-178
generateBasicAnalysis(data, symbol, timeframe) ==
    IF Len(data) = 0 THEN [unable |-> symbol]
    ELSE LET latest == data[Len(data)]
             previous == data[Max2(0, Len(data) - 7) + 1]
             priceChange == Ratio(latest.close - previous.close, previous.close,
                                  100 * 100)
             rsi == Field(latest, "rsi_14", 50 * 1000)
             trend == detectTrend(data)
             emaPosition == IF latest.close > Field(latest, "ema_20", latest.close)
                            THEN "above" ELSE "below"
         IN [ symbol |-> symbol,
              timeframe |-> timeframe,
              currentPrice |-> latest.close,
              priceChange |-> priceChange,
              since |-> IF timeframe = "24h" THEN "yesterday"
                        ELSE "previous period",
              trend |-> trend,
              rsi |-> rsi,
              rsiZone |-> IF rsi > 70000 THEN "Overbought"
                          ELSE IF rsi < 30000 THEN "Oversold"
                          ELSE IF rsi > 55000 THEN "Bullish"
                          ELSE IF rsi < 45000 THEN "Bearish"
                          ELSE "Neutral",
              emaPosition |-> emaPosition,
              recommendation |->
                  IF trend = "Uptrend" /\ rsi < 70000 /\ emaPosition = "above"
                  THEN "BUY"
                  ELSE IF trend = "Downtrend" /\ rsi > 30000
                          /\ emaPosition = "below"
                  THEN "SELL"
                  ELSE IF rsi > 70000 \/ rsi < 30000 THEN "WAIT"
                  ELSE "HOLD" ]

\* lines 55-58
NoSymbolResponse ==
    [ error |-> [message |-> "Please specify a cryptocurrency symbol"],
      analysis |-> [noSymbol |-> TRUE] ]

\* lines 103-106
FailureResponse(symbol, error) ==
    [ error |-> error, analysis |-> [sorry |-> symbol, error |-> error] ]

\* what the price sources answer to a request for timeframe under a feed
RouteAnswer(feed, timeframe) ==
    LET slots == {k \in 1..Len(TIMEFRAMES) : TIMEFRAMES[k] = timeframe} IN
    IF slots = {} THEN MtaAnswers["none"]
    ELSE MtaAnswers[feed.source[CHOOSE k \in slots : TRUE]]

\* lines 66-98 after getCoinId has returned coinId: the series is fetched
\* for timeframe and the success response carries label as its timeframe
RouteAnalyze(message, symbol, coinId, timeframe, label, now, feed, extra) ==
    LET marketData == getMarketDataByTimeframe(coinId, timeframe,
                                               RouteAnswer(feed, timeframe),
                                               now, feed.rs)
        dataWithIndicators == applyIndicators(marketData.value)
    IN IF marketData.kind = "threw" THEN FailureResponse(symbol, marketData.error)
       ELSE extra @@ [ symbol |-> symbol,
                       data |-> dataWithIndicators,
                       trend |-> detectTrend(dataWithIndicators),
                       analysis |-> generateBasicAnalysis(dataWithIndicators,
                                                          symbol, timeframe),
                       timeframe |-> label,
                       success |-> TRUE ]

\* lines 42-108 run to completion on the answers of a feed
action(message, now, feed) ==
    LET match == symbolMatch(message)
        symbol == toUpperCase(match.value)
        timeframe == requestedTimeframe(message)
        coinId == getCoinId(symbol, feed.coinList, feed.coinCapAssets)
        multi == getMultiTimeframeAnalysis(symbol, now, feed)
    IN IF ~Truthy(match) THEN NoSymbolResponse
       ELSE IF isMultiTimeframeRequest(message)
       THEN IF multi.kind = "threw" THEN FailureResponse(symbol, multi.error)
            ELSE RouteAnalyze(message, symbol, coinId.value, "24h",
                              "24h (Multi-Timeframe Analysis)", now, feed,
                              [multiTimeframeAnalysis |-> multi.value])
       ELSE IF coinId.kind = "threw" THEN FailureResponse(symbol, coinId.error)
       ELSE RouteAnalyze(message, symbol, coinId.value, timeframe, timeframe,
                         now, feed, <<>>)

(***************************************************************************)
(* SpecRoute: one request to the route action.  The message holds an       *)
(* optional verb, an optional symbol, an optional timeframe word and an    *)
(* optional 'all'.                                                         *)
(***************************************************************************)
Optional(words) == {<<>>} \cup {<<w>> : w \in words}

RouteTimeframeWords == DOMAIN TIMEFRAME_CONFIG \cup {"1H", "6m", "5m"}

RouteMessages ==
    { verb \o symbol \o timeframe \o multi :
        verb \in Optional({"Check"}), symbol \in Optional({"BTC", "Wif", "nope"}),
        timeframe \in Optional(RouteTimeframeWords), multi \in Optional({"all"}) }

InitRoute ==
    /\ pc = "action"
    /\ \E message \in RouteMessages, now \in Clock, feed \in DOMAIN ConcFeeds :
         args = [message |-> message, now |-> now, feed |-> feed]
    /\ calls = <<>>
    /\ locals = <<>>
    /\ ret = Pending

\* lines 43-61: the message is parsed; without symbol the action returns
RouteParse ==
    /\ pc = "action"
    /\ LET match == symbolMatch(args.message) IN
       IF ~Truthy(match)
       THEN /\ pc' = "done"
            /\ ret' = Returned(NoSymbolResponse)
            /\ UNCHANGED locals
       ELSE /\ pc' = "analyze"
            /\ locals' = [ symbol |-> toUpperCase(match.value),
                           requestedTimeframe |-> requestedTimeframe(args.message),
                           isMultiTimeframeRequest |->
                               isMultiTimeframeRequest(args.message) ]
            /\ UNCHANGED ret
    /\ UNCHANGED <<args, calls>>

\* lines 63-107: the analysis, or the response of the catch block
RouteRespond ==
    /\ pc = "analyze"
    /\ ret' = Returned(action(args.message, args.now, ConcFeeds[args.feed]))
    /\ pc' = "done"
    /\ UNCHANGED <<args, calls, locals>>

NextRoute == RouteParse \/ RouteRespond

SpecRoute == InitRoute /\ [][NextRoute]_vars

IsSuccess(response) == "success" \in DOMAIN response

\* the first word of the message that is one of the nine codes as the
\* configuration table spells them
NamedCode(message) ==
    LET k == FirstOf({j \in 1..Len(message) :
                        message[j] \in DOMAIN TIMEFRAME_CONFIG})
    IN IF k > 0 THEN Own(message[k]) ELSE Undefined

\* C27: a message that names one of the nine codes and a resolvable symbol
\* (and asks for one timeframe) gets a success response whose analysis ran
\* with the configuration of that code and which carries that timeframe; a
\* message that names no code is analysed on 24h.
C27_AnalysesNamedTimeframe ==
    (/\ pc = "done"
     /\ "symbol" \in DOMAIN locals
     /\ ~locals.isMultiTimeframeRequest
     /\ getCoinId(locals.symbol, ConcFeeds[args.feed].coinList,
                  ConcFeeds[args.feed].coinCapAssets).kind = "returned") =>
      LET named == NamedCode(args.message)
          codes == {toLowerCase(tf) : tf \in DOMAIN TIMEFRAME_CONFIG}
      IN IF Truthy(named)
         THEN /\ IsSuccess(ret.value)
              /\ Lookup(TIMEFRAME_CONFIG, ret.value.timeframe)
                   = Own(TIMEFRAME_CONFIG[named.value])
              /\ ret.value.analysis.timeframe = ret.value.timeframe
         ELSE (\A k \in 1..Len(args.message) :
                   toLowerCase(args.message[k]) \notin codes)
                => IsSuccess(ret.value) /\ ret.value.timeframe = "24h"

(***************************************************************************)
(* callOpenRouterAPI (part_002, lines 233-380).  One step issues the       *)
(* request of line 278, one handles what comes back (the rest of the try   *)
(* and the catch), one lets the delay before a retry elapse.  calls holds  *)
(* the requests issued, each with the answer it got once that is known.    *)
(***************************************************************************)
\* line 234
maxRetries == 3

\* lines 200-230 on the contents below: markup is stripped, sections of at
\* most 10 characters are dropped
formatAIResponse(rawResponse) ==
    CASE rawResponse = "**Uptrend** expected soon" -> "Uptrend expected soon"
      [] rawResponse = "# Buy" -> ""
      [] OTHER -> rawResponse

\* an error thrown by a throw statement of the try: it has no response
PlainError(message) == [response |-> Undefined, code |-> "", message |-> message]

\* what the service, or the network, answers to one request
OrResponses ==
    { [kind |-> "network", code |-> "ECONNABORTED", message |-> "timeout exceeded"],
      [kind |-> "network", code |-> "ENOTFOUND", message |-> "getaddrinfo ENOTFOUND"],
      [kind |-> "network", code |-> "ECONNRESET", message |-> "socket hang up"] }
    \cup { [kind |-> "http", status |-> s, content |-> Undefined] :
             s \in {401, 402, 404, 429, 500} }
    \cup { [kind |-> "http", status |-> 200, content |-> c] :
             c \in {Undefined, Own(""), Own("**Uptrend** expected soon"),
                    Own("# Buy")} }

\* 1000 * Math.pow(2, retryCount)
Backoff(retryCount) ==
    1000 * (CASE retryCount = 0 -> 1 [] retryCount = 1 -> 2 [] retryCount = 2 -> 4
              [] OTHER -> 8)

\* outcomes of one invocation
Resolve(text) == [kind |-> "resolve", text |-> text]

Retry(delay) == [kind |-> "retry", delay |-> delay]

\* faulty variant: the guard of line 360 admits one retry more
Catch_OneMore(error, retryCount) ==
    IF retryCount <= maxRetries
       /\ (error.response.kind # "own" \/ error.response.value >= 500)
    THEN Retry(Min2(Backoff(retryCount), 5000))
    ELSE Resolve("Analisis gagal: " \o error.message
                   \o ". Silakan coba lagi nanti.")

\* lines 337-379: the catch block on the error caught
Catch(error, retryCount) ==
    LET hasResponse == error.response.kind = "own"
        status == error.response.value
    IN IF hasResponse /\ status = 401
       THEN Resolve("Analisis gagal: API key tidak valid. Periksa konfigurasi API key OpenRouter.")
       ELSE IF retryCount < maxRetries /\ (~hasResponse \/ status >= 500)
       THEN Retry(Min2(Backoff(retryCount), 5000))
       ELSE IF hasResponse /\ status = 402
       THEN Resolve("Analisis gagal: Kredit API habis. Silakan coba lagi nanti.")
       ELSE IF hasResponse /\ status = 429
       THEN Resolve("Analisis gagal: Rate limit exceeded. Silakan coba lagi dalam beberapa menit.")
       ELSE IF error.code = "ECONNABORTED"
       THEN Resolve("Analisis gagal: Timeout. Silakan coba lagi.")
       ELSE IF error.code \in {"ENOTFOUND", "ECONNREFUSED"}
       THEN Resolve("Analisis gagal: Koneksi ke server gagal. Periksa koneksi internet.")
       ELSE Resolve("Analisis gagal: " \o error.message
                      \o ". Silakan coba lagi nanti.")

\* lines 278-379: what one invocation does with the answer to its request.
\* axios rejects on a network failure and, by validateStatus (line 284), on
\* a status of 500 or more; every other status resolves.
HandleResponse(resp, retryCount) ==
    IF resp.kind = "network"
    THEN Catch([response |-> Undefined, code |-> resp.code,
                message |-> resp.message], retryCount)
    ELSE IF resp.status >= 500
    THEN Catch([response |-> Own(resp.status), code |-> "ERR_BAD_RESPONSE",
                message |-> "Request failed with status code 500"], retryCount)
    ELSE IF resp.status = 401
    THEN Catch(PlainError("API key tidak valid atau sudah expired"), retryCount)
    ELSE IF resp.status = 402
    THEN Catch(PlainError("Kredit API habis, silakan top up atau coba lagi nanti"),
               retryCount)
    ELSE IF resp.status = 429
    THEN IF retryCount < maxRetries THEN Retry(Min2(Backoff(retryCount), 10000))
         ELSE Catch(PlainError("Rate limit exceeded, silakan coba lagi nanti"),
                    retryCount)
    ELSE IF resp.status >= 400
    THEN Catch(PlainError("API error"), retryCount)
    ELSE IF ~Truthy(resp.content)
    THEN Catch(PlainError("Format response tidak valid dari AI"), retryCount)
    ELSE IF resp.content.value = ""
    THEN Catch(PlainError("Response content kosong dari AI"), retryCount)
    ELSE Resolve(formatAIResponse(resp.content.value))

InitRetry ==
    /\ pc = "callOpenRouterAPI"
    /\ \E key \in {"sk-or-v1", "undefined"} : args = [AI_API_KEY |-> key]
    /\ calls = <<>>
    /\ locals = [retryCount |-> 0]
    /\ ret = Pending

\* the invocation ends as outcome says
OrSettle(outcome) ==
    IF outcome.kind = "resolve"
    THEN /\ pc' = "done"
         /\ ret' = Returned(outcome.text)
         /\ UNCHANGED locals
    ELSE /\ pc' = "backoff"
         /\ locals' = [retryCount |-> locals.retryCount, delay |-> outcome.delay]
         /\ UNCHANGED ret

\* lines 236-293: without API key the try throws at line 242, otherwise the
\* request is sent
OrCall ==
    /\ pc = "callOpenRouterAPI"
    /\ IF args.AI_API_KEY = "undefined"
       THEN /\ OrSettle(Catch(PlainError("OpenRouter API key tidak ditemukan dalam environment variables"),
                              locals.retryCount))
            /\ UNCHANGED calls
       ELSE /\ pc' = "awaitResponse"
            /\ calls' = Append(calls, [retryCount |-> locals.retryCount])
            /\ UNCHANGED <<locals, ret>>
    /\ UNCHANGED args

\* lines 278-379: the request is answered, or fails
OrResponds ==
    /\ pc = "awaitResponse"
    /\ \E resp \in OrResponses :
         /\ calls' = [calls EXCEPT ![Len(calls)] =
                        [retryCount |-> @.retryCount, response |-> resp]]
         /\ OrSettle(HandleResponse(resp, locals.retryCount))
    /\ UNCHANGED args

\* lines 314-315 and 363-364: the delay is over, the function calls itself
OrBackoffElapses ==
    /\ pc = "backoff"
    /\ pc' = "callOpenRouterAPI"
    /\ locals' = [retryCount |-> locals.retryCount + 1]
    /\ UNCHANGED <<args, calls, ret>>

NextRetry == OrCall \/ OrResponds \/ OrBackoffElapses

SpecRetry == InitRetry /\ [][NextRetry]_vars

\* every request is answered or fails within the timeout of line 283, and
\* every timer fires
SpecRetryFair == SpecRetry /\ WF_vars(NextRetry)

\* the answer to the k-th request is one after which the claim allows a retry
Retryable(k) ==
    \/ calls[k].response.kind = "network"
    \/ calls[k].response.kind = "http" /\ calls[k].response.status >= 500
    \/ calls[k].response.kind = "http" /\ calls[k].response.status = 429

\* C28: a further request follows only a network failure, a 5xx answer or
\* a 429 answer; when the service answers 401, 402 or another 4xx status
\* the call makes exactly one request and returns a failure message.
C28_RetryOnlyTransient ==
    /\ \A k \in 1..(Len(calls) - 1) : Retryable(k)
    /\ (Len(calls) >= 1 /\ "response" \in DOMAIN calls[1]
        /\ calls[1].response.kind = "http"
        /\ calls[1].response.status \in {401, 402, 404}) =>
         /\ pc = "done"
         /\ Len(calls) = 1
         /\ ret.kind = "returned"

\* C29: the call makes at most 4 requests, retryCount never exceeds 3, the
\* call ends, and it ends by resolving to a string.
C29_TerminatesWithString ==
    /\ [](/\ Len(calls) <= maxRetries + 1
          /\ locals.retryCount <= maxRetries
          /\ pc = "done" => (ret.kind = "returned" /\ ret.value \in STRING)
          /\ pc # "done" => ret = Pending)
    /\ <>(pc = "done")

\* C29 witness: four requests, each answered 500, and the call resolved to
\* the failure message.
C29_Witness ==
    /\ pc = "done"
    /\ Len(calls) = 4
    /\ \A k \in 1..4 : calls[k].response.kind = "http"
                       /\ calls[k].response.status = 500
    /\ locals.retryCount = 3
    /\ ret.value = "Analisis gagal: Request failed with status code 500. Silakan coba lagi nanti."

(***************************************************************************)
(* SpecChat: the ChatInterface component (ChatInterface.tsx) in front of   *)
(* the route action.  locals holds the state of the component: messages,   *)
(* inputValue, the actionData of the last submission, and whether the      *)
(* effect of lines 44-54 is still to run for it.  calls holds the          *)
(* submissions posted to the route, each with the response once the        *)
(* action has returned.  The content of a user message is the record of   *)
(* its text, that of an AI message the analysis returned.  Files are left  *)
(* out: selectedFile stays null.                                           *)
(***************************************************************************)
\* the most submissions of one session
MaxSubmits == 2

\* what the user types: a request that succeeds, one whose timeframe the
\* analysis rejects, one for an unknown coin, one without any symbol
ChatInputs == { <<"Check", "BTC", "1h">>, <<"BTC", "6M">>, <<"nope">>, <<"1h">> }

InitChat ==
    /\ pc = "idle"
    /\ \E now \in Clock, feed \in DOMAIN ConcFeeds : args = [now |-> now, feed |-> feed]
    /\ calls = <<>>
    /\ locals = [ messages |-> <<>>, inputValue |-> <<>>,
                  actionData |-> Undefined, effectPending |-> FALSE ]
    /\ ret = Pending

\* onChange of the input (line 403), enabled while no submission is under
\* way; React runs the pending effects of a render before it handles the
\* next event
ChatType ==
    /\ pc = "idle"
    /\ ~locals.effectPending
    /\ Len(calls) < MaxSubmits
    /\ \E text \in ChatInputs : locals' = [locals EXCEPT !.inputValue = text]
    /\ UNCHANGED <<pc, args, calls, ret>>

\* lines 106-126 and the post of the Form (line 365): the submit button is
\* enabled only for a non-empty input (line 437)
ChatSubmit ==
    /\ pc = "idle"
    /\ ~locals.effectPending
    /\ locals.inputValue # <<>>
    /\ Len(calls) < MaxSubmits
    /\ locals' = [locals EXCEPT
                    !.messages = Append(@, [ type |-> "user",
                                             content |-> [text |-> locals.inputValue] ]),
                    !.inputValue = <<>>]
    /\ calls' = Append(calls, [message |-> locals.inputValue])
    /\ pc' = "submitting"
    /\ UNCHANGED <<args, ret>>

\* what the route action returns for each input, clock reading and feed
ChatResponses ==
    [ message \in ChatInputs, now \in Clock, feed \in DOMAIN ConcFeeds |->
        action(message, now, ConcFeeds[feed]) ]

\* the route action returns: useActionData delivers its response
ChatActionReturns ==
    /\ pc = "submitting"
    /\ \E response \in { ChatResponses[calls[Len(calls)].message, args.now,
                                       args.feed] } :
          /\ calls' = [calls EXCEPT ![Len(calls)] =
                         [message |-> @.message, response |-> response]]
          /\ locals' = [locals EXCEPT !.actionData = Own(response),
                                      !.effectPending = TRUE]
    /\ pc' = "idle"
    /\ UNCHANGED <<args, ret>>

\* lines 44-54: the effect on the new actionData
ChatEffect ==
    /\ locals.effectPending
    /\ LET actionData == locals.actionData.value IN
       IF "analysis" \in DOMAIN actionData /\ "symbol" \in DOMAIN actionData
       THEN locals' = [locals EXCEPT
                         !.messages = Append(@, [ type |-> "ai",
                                                  content |-> actionData.analysis ]),
                         !.effectPending = FALSE]
       ELSE locals' = [locals EXCEPT !.effectPending = FALSE]
    /\ UNCHANGED <<pc, args, calls, ret>>

NextChat == ChatType \/ ChatSubmit \/ ChatActionReturns \/ ChatEffect

SpecChat == InitChat /\ [][NextChat]_vars

\* the action returns for every submission, and every effect runs
SpecChatFair ==
    SpecChat /\ WF_vars(ChatActionReturns) /\ WF_vars(ChatEffect)

\* the action has returned for the n-th submission
ChatReturned(n) == Len(calls) >= n /\ "response" \in DOMAIN calls[n]

\* the transcript holds an AI message with the analysis returned for the
\* n-th submission, after the n-th user message
ChatAnswered(n) ==
    /\ ChatReturned(n)
    /\ \E k \in 1..Len(locals.messages) :
        /\ locals.messages[k].type = "ai"
        /\ locals.messages[k].content = calls[n].response.analysis
        /\ Cardinality({j \in 1..k : locals.messages[j].type = "user"}) >= n

\* C30: every submitted message is eventually answered: once the action
\* has returned for a submission, an AI message carrying the returned
\* analysis is appended to the messages, for a success response and for an
\* error response alike.
C30_EverySubmissionAnswered ==
    \A n \in 1..MaxSubmits : ChatReturned(n) ~> ChatAnswered(n)

====
